---- MODULE Spec2Model ----
(***************************************************************************)
(* Kinematics core of the 6-DOF arm viewer (fk_helper.py and the forward   *)
(* and inverse kinematics parts of step_viewer.py).                        *)
(*                                                                         *)
(* Reals are fixed-point integers.  Dimensionless numbers, radians and     *)
(* degrees carry S = 10^6 units per 1; lengths carry 10^4 units per mm and *)
(* areas 10^2 units per mm^2, so that the scaled product MulS maps         *)
(* (number, number) to number, (number, length) to length and              *)
(* (length, length) to area.  NaN is a reserved value that every operation *)
(* downstream of it propagates, as IEEE arithmetic does.                   *)
(***************************************************************************)
EXTENDS Integers, Sequences, FiniteSets, TLC

\* ------------------------------------------------------------------------
\* Fixed-point arithmetic (numpy float64 arithmetic, to 6 decimal places)
\* ------------------------------------------------------------------------
S == 1000000
K == 1000
NaN == -2000000000

Abs(x) == IF x < 0 THEN -x ELSE x
Sgn(x) == IF x < 0 THEN -1 ELSE 1
Max(a, b) == IF a >= b THEN a ELSE b
Min(a, b) == IF a <= b THEN a ELSE b

\* (ah*K + al) * (bh*K + bl) / S, with S = K*K
MulParts(ah, al, bh, bl) == ah * bh + ((ah * bl + al * bh + ((al * bl) \div K)) \div K)

\* |a|*|b| / S without leaving 32 bits
MulNat(a, b) == MulParts(a \div K, a % K, b \div K, b % K)

\* the float product a * b
MulS(a, b) ==
    IF a = NaN \/ b = NaN THEN NaN
    ELSE Sgn(a) * Sgn(b) * MulNat(Abs(a), Abs(b))

RECURSIVE LongDiv(_, _, _)
LongDiv(r, b, n) ==
    IF n = 0 THEN 0
    ELSE (((r * 100) \div b) * (100 ^ (n - 1))) + LongDiv((r * 100) % b, b, n - 1)

\* the float quotient a / b for a divisor 0 < b <= 2*10^7
DivS(a, b) ==
    IF a = NaN \/ b = NaN THEN NaN
    ELSE Sgn(a) * (((Abs(a) \div b) * S) + LongDiv(Abs(a) % b, b, 3))

Add(a, b) == IF a = NaN \/ b = NaN THEN NaN ELSE a + b
Sub(a, b) == IF a = NaN \/ b = NaN THEN NaN ELSE a - b
Neg(a) == IF a = NaN THEN NaN ELSE -a

\* a * a <= v * S, decided exactly from the quotient and remainder of a * a by S
SqLeq(a, v) ==
    \/ MulNat(a, a) < v
    \/ /\ MulNat(a, a) = v
       /\ ((((2 * (a \div K) * (a % K)) % K) * K) + ((a % K) * (a % K))) % S = 0

RECURSIVE Bisect(_, _, _)
Bisect(v, lo, hi) ==
    IF hi - lo <= 1 THEN lo
    ELSE IF SqLeq((lo + hi) \div 2, v) THEN Bisect(v, (lo + hi) \div 2, hi)
         ELSE Bisect(v, lo, (lo + hi) \div 2)

SqrtMax == 46000000

\* np.sqrt: NaN for a negative argument, never an exception
Sqrt(v) ==
    IF v = NaN \/ v < 0 THEN NaN
    ELSE Bisect(v, 0, Min(SqrtMax, Max(v, S) + 1))

SmallMax == 30000

\* np.sqrt(a*a + b*b); floats keep their relative precision for small
\* operands, so below SmallMax the squares are taken exactly (unscaled)
SqrtSumSq(a, b) ==
    IF a = NaN \/ b = NaN THEN NaN
    ELSE IF Max(Abs(a), Abs(b)) < SmallMax
         THEN Sqrt((a * a) + (b * b)) \div K
         ELSE Sqrt(MulS(a, a) + MulS(b, b))

Pi == 3141592
HalfPi == Pi \div 2
QuarterPi == Pi \div 4

\* Taylor polynomials on [-pi/4, pi/4], in Horner form, r2 = r * r
SinPoly(r, r2) ==
    MulS(r, S - (MulS(r2, S - (MulS(r2, S - (r2 \div 42)) \div 20)) \div 6))

CosPoly(r2) ==
    S - (MulS(r2, S - (MulS(r2, S - (MulS(r2, S - (r2 \div 56)) \div 30)) \div 12)) \div 2)

SinT(r) == SinPoly(r, MulS(r, r))
CosT(r) == CosPoly(MulS(r, r))

Quadrant(x) == (x + QuarterPi) \div HalfPi
Reduced(x) == x - (Quadrant(x) * HalfPi)

\* the sine of an angle in quadrant q from the sine s and cosine c of its
\* reduced angle
InQuadrant(q, s, c) ==
    CASE q = 0 -> s
      [] q = 1 -> c
      [] q = 2 -> -s
      [] OTHER -> -c

\* np.sin, np.cos (radians)
Sin(x) ==
    IF x = NaN THEN NaN
    ELSE InQuadrant(Quadrant(x) % 4, SinT(Reduced(x)), CosT(Reduced(x)))

Cos(x) ==
    IF x = NaN THEN NaN
    ELSE InQuadrant(Quadrant(x) % 4, CosT(Reduced(x)), -SinT(Reduced(x)))

\* atan(2^-i) for i = 0..20, in units of 10^-6 rad
AtanTable == << 785398, 463648, 244979, 124355, 62419, 31240, 15624, 7812,
                3906, 1953, 977, 488, 244, 122, 61, 31, 15, 8, 4, 2, 1 >>

RECURSIVE Vectoring(_, _, _, _)
Vectoring(x, y, z, i) ==
    IF i > Len(AtanTable) \/ y = 0 THEN z
    ELSE IF y > 0
         THEN Vectoring(x + (y \div (2 ^ (i - 1))), y - (x \div (2 ^ (i - 1))),
                        z + AtanTable[i], i + 1)
         ELSE Vectoring(x - (y \div (2 ^ (i - 1))), y + (x \div (2 ^ (i - 1))),
                        z - AtanTable[i], i + 1)

AtanLo == 100000000
AtanHi == 500000000

\* a coordinate brought into the working range of the rotations, m being
\* the larger of the two coordinates
AtanScaled(v, m) ==
    (v * (IF m < AtanLo THEN AtanHi \div m ELSE 1)) \div (IF m > AtanHi THEN 4 ELSE 1)

\* the angle of (x, y) for x, y > 0, within [0, pi/2]
AtanAcute(y, x, m) ==
    Max(0, Min(HalfPi, Vectoring(AtanScaled(x, m), AtanScaled(y, m), 0, 1)))

\* the acute angle t carried to the quadrant of (x, y)
AtanPlaced(y, x, t) == IF x > 0 THEN Sgn(y) * t ELSE Sgn(y) * (Pi - t)

\* np.arctan2(y, x) (radians), the angle of the vector (x, y)
Atan2(y, x) ==
    IF y = NaN \/ x = NaN THEN NaN
    ELSE IF y = 0 THEN (IF x >= 0 THEN 0 ELSE Pi)
    ELSE IF x = 0 THEN (IF y > 0 THEN HalfPi ELSE -HalfPi)
    ELSE AtanPlaced(y, x, AtanAcute(Abs(y), Abs(x), Max(Abs(x), Abs(y))))

\* ------------------------------------------------------------------------
\* fk_helper.py: link constants and the chain descriptor
\* ------------------------------------------------------------------------
MM == 10000

D1 == 1040000
A2 == 2700000
D4 == 3000000
D6 == 634000

\* the twist of joint 4 with the sign of its neighbours
ROBOT_DH_PARAMS_twist ==
    << << 0,  HalfPi,  D1 >>,
       << A2, 0,       0  >>,
       << 0,  HalfPi,  0  >>,
       << 0,  HalfPi,  D4 >>,
       << 0,  HalfPi,  0  >>,
       << 0,  0,       D6 >> >>

ROBOT_DH_PARAMS ==
    << << 0,  HalfPi,  D1 >>,
       << A2, 0,       0  >>,
       << 0,  HalfPi,  0  >>,
       << 0,  -HalfPi, D4 >>,
       << 0,  HalfPi,  0  >>,
       << 0,  0,       D6 >> >>

\* results of a call that may raise
Ok(v) == [exc |-> "none", val |-> v]
Raise(e) == [exc |-> e, val |-> << >>]

\* degrees to radians: v * pi / 180 (math.radians, np.deg2rad)
Radians(v) == IF v = NaN THEN NaN ELSE MulS(v, Pi) \div 180
\* radians to degrees: t * 180 / pi
Degrees(t) == IF t = NaN THEN NaN ELSE DivS(t * 180, Pi)

\* lines 30-35: the array built from the cosines and sines of the twist
\* and of the joint angle
DhArray(a, d, ca, sa, ct, st) ==
    << << ct, MulS(Neg(st), ca), MulS(st, sa),      MulS(a, ct) >>,
       << st, MulS(ct, ca),      MulS(Neg(ct), sa), MulS(a, st) >>,
       << 0,  sa,                ca,                d           >>,
       << 0,  0,                 0,                 S           >> >>

\* sine and cosine of the twist exchanged
dh_matrix_twist(a, alpha, d, theta) ==
    DhArray(a, d, Sin(alpha), Cos(alpha), Cos(theta), Sin(theta))

dh_matrix(a, alpha, d, theta) ==
    DhArray(a, d, Cos(alpha), Sin(alpha), Cos(theta), Sin(theta))

\* np.ndarray.shape of a two-dimensional array
Shape(A) == << Len(A), IF Len(A) = 0 THEN 0 ELSE Len(A[1]) >>

\* entry (i, j) of A @ B for 4x4 operands
Dot(A, B, i, j) ==
    Add(Add(Add(MulS(A[i][1], B[1][j]), MulS(A[i][2], B[2][j])),
            MulS(A[i][3], B[3][j])), MulS(A[i][4], B[4][j]))

\* an array whose entries are all computed (np.ndarray), as a tuple
Array(f) == f \o << >>

\* A @ B for 4x4 operands
MatMul(A, B) == Array([i \in 1..4 |-> Array([j \in 1..4 |-> Dot(A, B, i, j)])])

\* A @ B for operands of any matching shapes
RECURSIVE DotAny(_, _, _, _, _)
DotAny(A, B, i, j, k) ==
    IF k = 0 THEN 0 ELSE Add(DotAny(A, B, i, j, k - 1), MulS(A[i][k], B[k][j]))

\* no shape check: whatever numpy can multiply is multiplied
mat4_mul_unchecked(A, B) ==
    IF Shape(A)[2] # Shape(B)[1]
    THEN Raise("ValueError")
    ELSE Ok(Array([i \in 1..Len(A) |->
                     Array([j \in 1..Len(B[1]) |-> DotAny(A, B, i, j, Len(B))])]))

\* operands multiplied in the opposite order
mat4_mul_swapped(A, B) ==
    IF Shape(A) # << 4, 4 >> \/ Shape(B) # << 4, 4 >>
    THEN Raise("ValueError")
    ELSE Ok(MatMul(B, A))

mat4_mul(A, B) ==
    IF Shape(A) # << 4, 4 >> \/ Shape(B) # << 4, 4 >>
    THEN Raise("ValueError")
    ELSE Ok(MatMul(A, B))

\* line 64 with den = r33, of either sign
Den_signed(T) == T[3][3]

\* line 64: den = sqrt(r32^2 + r33^2)
Den(T) == SqrtSumSq(T[3][2], T[3][3])

\* the arguments of the arctangent of a exchanged
PoseOf_swapped(T) ==
    << T[1][4], T[2][4], T[3][4],
       Degrees(Atan2(T[1][1], T[2][1])),
       Degrees(Atan2(Neg(T[3][1]), Den(T))),
       Degrees(Atan2(T[3][2], T[3][3])) >>

\* pose_from_transform after its shape check (degrees = True):
\* x, y, z = T[:3, 3]; a = arctan2(r21, r11); b = arctan2(-r31, den);
\* c = arctan2(r32, r33)
PoseOf(T) ==
    << T[1][4], T[2][4], T[3][4],
       Degrees(Atan2(T[2][1], T[1][1])),
       Degrees(Atan2(Neg(T[3][1]), Den(T))),
       Degrees(Atan2(T[3][2], T[3][3])) >>

pose_from_transform(T) ==
    IF Shape(T) # << 4, 4 >>
    THEN Raise("ValueError")
    ELSE Ok(PoseOf(T))

IkOffset == 1000

\* calculate_ik2, lines 175-182: the offset input angle in radians
Ik2Radians(v) == MulS(v + IkOffset, Pi) \div 180

\* calculate_ik2, lines 191-201: the rotation matrix, entry by entry under
\* the names the code gives its entries (r11, r12, r13 / r21, r22, r23 /
\* r31, r32, r33)
Ik2Matrix(c_alfa, s_alfa, c_beta, s_beta, c_delta, s_delta) ==
    << << -s_beta,
          MulS(c_beta, s_delta),
          MulS(c_beta, c_delta) >>,
       << MulS(c_alfa, c_beta),
          MulS(MulS(c_alfa, s_beta), s_delta) - MulS(c_delta, s_alfa),
          MulS(s_alfa, s_delta) + MulS(MulS(c_alfa, c_delta), s_beta) >>,
       << MulS(c_beta, s_alfa),
          MulS(c_alfa, c_delta) + MulS(MulS(s_alfa, s_beta), s_delta),
          MulS(MulS(c_delta, s_alfa), s_beta) - MulS(c_alfa, s_delta) >> >>

\* calculate_ik2, lines 175-201: the rotation matrix built from the target
\* orientation (degrees)
Ik2Rotation(phi_in, beta_in, psi_in) ==
    Ik2Matrix(Cos(Ik2Radians(phi_in)), Sin(Ik2Radians(phi_in)),
              Cos(Ik2Radians(beta_in)), Sin(Ik2Radians(beta_in)),
              Cos(Ik2Radians(psi_in)), Sin(Ik2Radians(psi_in)))

\* calculate_ik2, lines 211-217: r, s and the law-of-cosines term of the
\* wrist centre (Wx, Wy, Wz)
Ik2Triangle(Wx, Wy, Wz, r, s) ==
    [Wx |-> Wx, Wy |-> Wy, Wz |-> Wz, r |-> r, s |-> s,
     cos_theta2 |->
         DivS(MulS(r, r) + MulS(s, s) - MulS(A2, A2) - MulS(D4, D4), 2 * MulS(A2, D4))]

Ik2Centre(Wx, Wy, Wz) == Ik2Triangle(Wx, Wy, Wz, SqrtSumSq(Wx, Wy), Wz - D1)

\* calculate_ik2, lines 204-217: wrist centre and the law-of-cosines term
Ik2Arm(x, y, z, R) ==
    Ik2Centre(x - MulS(D6, R[1][3]), y - MulS(D6, R[2][3]), z - MulS(D6, R[3][3]))

\* lines 220-224 with line 224 moved before line 221: k1 and k2 from the
\* elbow angle after its offset
Ik2Theta_offset_first(arm, th2) ==
    << Atan2(arm.Wy, arm.Wx),
       Sub(Atan2(arm.s, arm.r),
           Atan2(MulS(D4, Sin(Add(th2, HalfPi))),
                 Add(A2, MulS(D4, Cos(Add(th2, HalfPi)))))),
       Add(th2, HalfPi) >>

\* calculate_ik2, lines 214-224: theta[0], theta[1] from k1 and k2, and
\* theta[2] + pi/2, from the elbow angle th2 of line 218
Ik2Theta(arm, th2) ==
    << Atan2(arm.Wy, arm.Wx),
       Sub(Atan2(arm.s, arm.r),
           Atan2(MulS(D4, Sin(th2)), Add(A2, MulS(D4, Cos(th2))))),
       Add(th2, HalfPi) >>

\* the other root of line 218: the elbow angle with a positive sine
Ik2Joints_elbow_up(arm) ==
    Ik2Theta(arm, Atan2(Sqrt(S - MulS(arm.cos_theta2, arm.cos_theta2)),
                        arm.cos_theta2))

\* calculate_ik2, lines 214-224: the first three joint angles (radians)
Ik2Joints(arm) ==
    Ik2Theta(arm, Atan2(Neg(Sqrt(S - MulS(arm.cos_theta2, arm.cos_theta2))),
                        arm.cos_theta2))

\* calculate_ik2, lines 231-235: ax, ay, az, sz, nz from the sines and
\* cosines of theta[0] and of theta[1] + theta[2]
Ik2Terms(R, s23, c23, c1, s1) ==
    [ax |-> Add(Add(MulS(R[3][3], s23), MulS(MulS(R[1][3], c23), c1)),
                MulS(MulS(R[2][3], c23), s1)),
     ay |-> Sub(MulS(R[1][3], s1), MulS(R[2][3], c1)),
     az |-> Add(Sub(MulS(MulS(R[1][3], s23), c1), MulS(R[3][3], c23)),
                MulS(MulS(R[2][3], s23), s1)),
     sz |-> Add(Sub(MulS(MulS(R[1][2], s23), c1), MulS(R[3][2], c23)),
                MulS(MulS(R[2][2], s23), s1)),
     nz |-> Add(Sub(MulS(MulS(R[1][1], s23), c1), MulS(R[3][1], c23)),
                MulS(MulS(R[2][1], s23), s1))]

\* calculate_ik2, lines 227-235: the wrist terms
Ik2Wrist(R, th) ==
    Ik2Terms(R, Sin(Add(th[2], th[3])), Cos(Add(th[2], th[3])), Cos(th[1]), Sin(th[1]))

\* calculate_ik2, lines 238-240: theta[3], theta[4], theta[5] in radians
Ik2WristAngles(w) ==
    << Atan2(w.ay, w.ax), Atan2(SqrtSumSq(w.ax, w.ay), w.az), Atan2(w.sz, Neg(w.nz)) >>

\* calculate_ik2, lines 238-244: the six joint angles in degrees
Ik2Angles(th, w) ==
    << Degrees(th[1]), Degrees(th[2]), Degrees(th[3]),
       Degrees(Atan2(w.ay, w.ax)),
       Degrees(Atan2(SqrtSumSq(w.ax, w.ay), w.az)),
       Degrees(Atan2(w.sz, Neg(w.nz))) >>

\* calculate_ik2, lines 227-244: the wrist angles after the arm angles th
Ik2Solve(R, th) == Ik2Angles(th, Ik2Wrist(R, th))

\* calculate_ik2, lines 204-244: the joint angles for the rotation matrix R
Ik2Position(x, y, z, R) == Ik2Solve(R, Ik2Joints(Ik2Arm(x, y, z, R)))

\* calculate_ik2: six joint angles in degrees; it has no raise statement
calculate_ik2(x, y, z, phi_in, beta_in, psi_in) ==
    Ik2Position(x, y, z, Ik2Rotation(phi_in, beta_in, psi_in))

\* calculate_ik, lines 96-106: the rotation matrix, entry by entry under the
\* names the code gives its entries (r11, r12, r13 / r21, r22, r23 /
\* r31, r32, r33)
IkMatrix(c_phi, s_phi, c_beta, s_beta, c_psi, s_psi) ==
    << << Add(MulS(MulS(c_phi, s_beta), c_psi), MulS(s_phi, s_psi)),
          MulS(c_phi, c_beta),
          Sub(MulS(MulS(c_phi, s_beta), s_psi), MulS(s_phi, c_psi)) >>,
       << Sub(MulS(MulS(s_phi, s_beta), c_psi), MulS(c_phi, s_psi)),
          MulS(s_phi, c_beta),
          Add(MulS(MulS(s_phi, s_beta), s_psi), MulS(c_phi, c_psi)) >>,
       << MulS(c_beta, c_psi),
          Neg(s_beta),
          MulS(c_beta, s_psi) >> >>

\* calculate_ik, lines 91-106: the rotation matrix built from the target
\* orientation (degrees)
IkRotation(phi_in, beta_in, psi_in) ==
    IkMatrix(Cos(Radians(phi_in)), Sin(Radians(phi_in)),
             Cos(Radians(beta_in)), Sin(Radians(beta_in)),
             Cos(Radians(psi_in)), Sin(Radians(psi_in)))

\* calculate_ik, lines 109-119: wrist centre and the law-of-cosines term
IkArm(x, y, z, R) ==
    Ik2Centre(x - MulS(D6, R[1][3]), y - MulS(D6, R[2][3]), z - MulS(D6, R[3][3]))

\* calculate_ik, lines 116-126: the first three joint angles (radians)
IkJoints(arm) ==
    Ik2Theta(arm, Atan2(Neg(Sqrt(S - MulS(arm.cos_theta2, arm.cos_theta2))),
                        arm.cos_theta2))

\* calculate_ik, lines 129-141: ax, ay, az, sz, nz from the sines and cosines
\* of theta[0] and of theta[1] + theta[2]
IkTerms(R, s23, c23, c1, s1) ==
    [ax |-> Add(Add(MulS(MulS(R[1][3], c1), c23), MulS(MulS(R[2][3], c23), s1)),
                MulS(R[3][3], s23)),
     ay |-> Add(MulS(Neg(R[2][3]), c1), MulS(R[1][3], s1)),
     az |-> Add(Add(MulS(Neg(R[3][3]), c23), MulS(MulS(R[1][3], c1), s23)),
                MulS(MulS(R[2][3], s1), s23)),
     sz |-> Add(Add(MulS(Neg(R[3][2]), c23), MulS(MulS(R[1][2], c1), s23)),
                MulS(MulS(R[2][2], s1), s23)),
     nz |-> Add(Add(MulS(Neg(R[3][1]), c23), MulS(MulS(R[1][1], c1), s23)),
                MulS(MulS(R[2][1], s1), s23))]

IkWrist(R, th) ==
    IkTerms(R, Sin(Add(th[2], th[3])), Cos(Add(th[2], th[3])), Cos(th[1]), Sin(th[1]))

\* calculate_ik, line 143
Epsilon == S \div 10

\* calculate_ik, lines 144-147: a term closer to zero than epsilon is moved
\* away from zero by epsilon (abs(NaN) < epsilon is false)
Nudged(v) ==
    IF v # NaN /\ Abs(v) < Epsilon
    THEN (IF v >= 0 THEN v + Epsilon ELSE v - Epsilon)
    ELSE v

\* calculate_ik, lines 150-165: the branch under `if True`, the offsets of
\* pi/2 on the wrist angles, and the conversion to degrees
IkAngles(th, ax, ay, az, sz, nz) ==
    << Degrees(th[1]), Degrees(th[2]), Degrees(th[3]),
       Degrees(Add(Atan2(Neg(ay), Neg(ax)), HalfPi)),
       Degrees(Add(Atan2(Neg(SqrtSumSq(ax, ay)), az), HalfPi)),
       Degrees(Add(Atan2(Neg(sz), nz), HalfPi)) >>

\* calculate_ik, lines 143-165: the guard applied to ax and ay
IkGuarded(th, w) == IkAngles(th, Nudged(w.ax), Nudged(w.ay), w.az, w.sz, w.nz)

\* calculate_ik, lines 129-165: the wrist angles after the arm angles th
IkSolve(R, th) == IkGuarded(th, IkWrist(R, th))

\* calculate_ik, lines 109-165: the joint angles for the rotation matrix R
IkPosition(x, y, z, R) == IkSolve(R, IkJoints(IkArm(x, y, z, R)))

\* calculate_ik: six joint angles in degrees; it has no raise statement
calculate_ik(x, y, z, phi_in, beta_in, psi_in) ==
    IkPosition(x, y, z, IkRotation(phi_in, beta_in, psi_in))

\* ------------------------------------------------------------------------
\* step_viewer.py: transport packets, transform table, forward kinematics
\* ------------------------------------------------------------------------
\* send with the offset of -pi/2 on all six axes
send_offset_all(robot_id, a) ==
    << 2, robot_id,
       Sub(Radians(a[1]), HalfPi), Sub(Radians(a[2]), HalfPi),
       Sub(Radians(a[3]), HalfPi), Sub(Radians(a[4]), HalfPi),
       Sub(Radians(a[5]), HalfPi), Sub(Radians(a[6]), HalfPi) >>

\* send(robot_id, a1..a6): the tuple handed to struct.pack
send(robot_id, a) ==
    << 2, robot_id,
       Sub(Radians(a[1]), HalfPi), Sub(Radians(a[2]), HalfPi),
       Sub(Radians(a[3]), HalfPi), Sub(Radians(a[4]), HalfPi),
       Radians(a[5]), Radians(a[6]) >>

\* Python round() of a float to an int (ties to even)
Round(v) ==
    LET q  == v \div S
        rm == v - (q * S)
    IN  IF 2 * rm > S \/ (2 * rm = S /\ q % 2 = 1) THEN q + 1 ELSE q

SliderMin == -180
SliderMax == 180

\* QSlider.setValue(int(value)): the value is clamped to the slider's range
SetSlider(n) == IF n < SliderMin THEN SliderMin ELSE IF n > SliderMax THEN SliderMax ELSE n

\* _init_defaults, lines 489-499
InitTransform ==
    [translate |-> << 0, 0, 0 >>,
     rotations |-> << [origin |-> << 0, 0, 0 >>, axis |-> << 1, 0, 0 >>, angle_deg |-> 0],
                      [origin |-> << 0, 0, 0 >>, axis |-> << 0, 1, 0 >>, angle_deg |-> 0],
                      [origin |-> << 0, 0, 0 >>, axis |-> << 0, 0, 1 >>, angle_deg |-> 0] >>]

InitTransformsTable ==
    << InitTransform, InitTransform, InitTransform, InitTransform,
       InitTransform, InitTransform, InitTransform >>

\* lines 320-323, the translation taken from the same pose as the angles
WriteTransform_same(old, pos, pos2) ==
    [translate |-> << pos2[1], pos2[2], pos2[3] >>,
     rotations |-> << [old.rotations[1] EXCEPT !.angle_deg = pos2[4]],
                      [old.rotations[2] EXCEPT !.angle_deg = pos2[5]],
                      [old.rotations[3] EXCEPT !.angle_deg = pos2[6]] >>]

\* lines 320-323: entry of the table written for one sub-assembly
WriteTransform(old, pos, pos2) ==
    [translate |-> << pos[1], pos[2], pos[3] >>,
     rotations |-> << [old.rotations[1] EXCEPT !.angle_deg = pos2[4]],
                      [old.rotations[2] EXCEPT !.angle_deg = pos2[5]],
                      [old.rotations[3] EXCEPT !.angle_deg = pos2[6]] >>]

\* lines 329-334
P == << << 0, S, 0, 0 >>,
        << 0, 0, S, 0 >>,
        << S, 0, 0, 0 >>,
        << 0, 0, 0, S >> >>

FkOffset == 10000

\* P multiplied from the left
TrP_left(tr5) == MatMul(P, tr5)

\* the end-effector transform: line 336
TrP(tr5) == MatMul(tr5, P)

\* line 306: the DH transform of joint i at joint angle v (degrees)
JointTransform(i, v) ==
    dh_matrix(ROBOT_DH_PARAMS[i][1], ROBOT_DH_PARAMS[i][2], ROBOT_DH_PARAMS[i][3],
              Radians(v))

\* line 310: tr[i] = mat4_mul(tr[i-1], dh[i])
Extended(tr, m) == Append(tr, mat4_mul(tr[Len(tr)], m).val)

\* lines 308-310: tr[0] = dh[0], then line 310 for every further joint; the
\* cumulative transforms of the first i joints
RECURSIVE Cumulative(_, _)
Cumulative(dh, i) ==
    IF i = 1 THEN << dh[1] >>
    ELSE Extended(Cumulative(dh, i - 1), dh[i])

\* lines 288-344: the effects and the result of the call, from its locals
FkResult(axis_values, verbos, table, dh, tr, poses, trP, pos, o) ==
    [exc |-> "none",
     sliders |-> << SetSlider(Round(axis_values[1])), SetSlider(Round(axis_values[2])),
                    SetSlider(Round(axis_values[3])), SetSlider(Round(axis_values[4])),
                    SetSlider(Round(axis_values[5])), SetSlider(Round(axis_values[6])) >>,
     packets |-> << send(1, axis_values), send(0, o) >>,
     dh |-> dh, tr |-> tr, trP |-> trP, poses |-> poses,
     table |-> IF verbos
               THEN << table[1],
                       WriteTransform(table[2], << 0, 0, 0, 0, 0, 0 >>, poses[1]),
                       WriteTransform(table[3], poses[1], poses[2]),
                       WriteTransform(table[4], poses[2], poses[3]),
                       WriteTransform(table[5], poses[3], poses[4]),
                       WriteTransform(table[6], poses[4], poses[5]),
                       WriteTransform(table[7], poses[5], poses[6]) >>
               ELSE table,
     pos |-> pos, ik |-> o]

\* line 343: the inverse solver on the end-effector pose
FkSolve(axis_values, verbos, table, dh, tr, poses, trP, pos) ==
    FkResult(axis_values, verbos, table, dh, tr, poses, trP, pos,
             calculate_ik2(pos[1], pos[2], pos[3], pos[4], pos[5], pos[6]))

\* line 339: the pose of the end-effector transform
FkPose(axis_values, verbos, table, dh, tr, poses, trP) ==
    FkSolve(axis_values, verbos, table, dh, tr, poses, trP, pose_from_transform(trP).val)

\* lines 313-336: the poses of the six frames and the end-effector transform
FkFrames(axis_values, verbos, table, dh, tr) ==
    FkPose(axis_values, verbos, table, dh, tr,
           Array([i \in 1..6 |-> pose_from_transform(tr[i]).val]), TrP(tr[6]))

\* lines 308-310: the cumulative transforms
FkChain(axis_values, verbos, table, dh) ==
    FkFrames(axis_values, verbos, table, dh, Cumulative(dh, 6))

\* StepViewer.apply_forward_kinematics(axis_values, verbos) on the transform
\* table `table`; axis_values in degrees.  The record holds the locals
\* (dh, tr, the six extracted poses), the effects and the returned pose.
apply_forward_kinematics(axis_values, verbos, table) ==
    IF \E i \in 1..6 : axis_values[i] = NaN
    THEN [exc |-> "ValueError", sliders |-> << >>, packets |-> << >>,
          dh |-> << >>, tr |-> << >>, trP |-> << >>, poses |-> << >>,
          table |-> table, pos |-> << >>, ik |-> << >>]
    ELSE FkChain(axis_values, verbos, table,
                 Array([i \in 1..6 |-> JointTransform(i, axis_values[i] + FkOffset)]))

\* ------------------------------------------------------------------------
\* The kinematics functions applied to inputs drawn from bounded sets.
\* call is the pending call, pc its progress, ret what it returned or
\* raised, log the log entries it emitted.
\* ------------------------------------------------------------------------
VARIABLES call, pc, ret, log, globals, threads, arrays, lists,
          files, cache, loader, got, changes, since,
          port, running, thread, readers, main, wrote, closed,
          viewer, before, event

vars == << call, pc, ret, log, globals, threads, arrays, lists,
          files, cache, loader, got, changes, since,
          port, running, thread, readers, main, wrote, closed,
          viewer, before, event >>

\* the variables of the single calls, and of the two threads
kinVars == << call, pc, ret, log >>
thrVars == << threads, arrays, lists >>
fsVars == << files, cache, loader, got, changes, since >>
serVars == << port, running, thread, readers, main, wrote, closed >>
guiVars == << viewer, before, event >>

\* ------------------------------------------------------------------------
\* serial_comm.py: SerialManager.  port is self._ser ("none": None, the
\* port could not be opened; "open"; "closed": the Serial object after its
\* close()), running is self._running, thread is self._thread (0: None),
\* readers the position of every thread that start_reader started, main the
\* position of the thread that calls the manager, wrote what the last
\* write was handed and returned, closed whether close() has returned.
\* ------------------------------------------------------------------------
MaxReaders == 3

Reader == 1..MaxReaders

\* what the driver can raise inside Serial.write, "none" when it writes
Faults == {"none", "SerialException", "SerialTimeoutException", "TypeError"}

\* the classes that "except Exception" catches
Exceptions == {"SerialException", "SerialTimeoutException", "PortNotOpenError", "TypeError"}

\* serial.Serial.write on a port: a closed port raises PortNotOpenError
SerialWrite(p, fault) == IF p = "closed" THEN "PortNotOpenError" ELSE fault

\* write, lines 61-69, catching only the serial errors
write_narrow(p, fault) ==
    IF p = "none" THEN [ret |-> FALSE, raised |-> "none"]
    ELSE IF SerialWrite(p, fault) = "none" THEN [ret |-> TRUE, raised |-> "none"]
    ELSE IF SerialWrite(p, fault) \in {"SerialException", "PortNotOpenError"}
         THEN [ret |-> FALSE, raised |-> "none"]
    ELSE [ret |-> FALSE, raised |-> SerialWrite(p, fault)]

\* write, lines 61-69
write(p, fault) ==
    IF p = "none" THEN [ret |-> FALSE, raised |-> "none"]
    ELSE IF SerialWrite(p, fault) = "none" THEN [ret |-> TRUE, raised |-> "none"]
    ELSE IF SerialWrite(p, fault) \in Exceptions THEN [ret |-> FALSE, raised |-> "none"]
    ELSE [ret |-> FALSE, raised |-> SerialWrite(p, fault)]

\* a write on port p with the driver's fault, after close() or not
Written(p, fault, after, r) ==
    [called |-> TRUE, port |-> p, fault |-> fault, after |-> after,
     ret |-> r.ret, raised |-> r.raised]

NoWrite ==
    [called |-> FALSE, port |-> "none", fault |-> "none", after |-> FALSE,
     ret |-> FALSE, raised |-> "none"]

\* is_open, lines 29-30
is_open(p) == p = "open"

\* Serial.close(), called at line 75 when the port is open
Closed(p) == IF is_open(p) THEN "closed" ELSE p

\* no SerialManager was constructed
NoSerialManager ==
    /\ port = "none"
    /\ running = FALSE
    /\ thread = 0
    /\ readers = [t \in Reader |-> "unborn"]
    /\ main = "idle"
    /\ wrote = NoWrite
    /\ closed = FALSE

Pending == [exc |-> "pending", val |-> << >>]

\* bounds of the input sets
ThetaSteps == 6
MaxDim == 5
GridSteps == 1
TargetSteps == 1

ThetaStep == 30
TargetStep == 300

Deg(n) == n * S

Identity4 ==
    << << S, 0, 0, 0 >>, << 0, S, 0, 0 >>, << 0, 0, S, 0 >>, << 0, 0, 0, S >> >>

\* the Z-Y-X rotation matrix Rz(a) Ry(b) Rx(c), angles in degrees
Rzyx(a, b, c) ==
    LET ca == Cos(Radians(a))
        sa == Sin(Radians(a))
        cb == Cos(Radians(b))
        sb == Sin(Radians(b))
        cc == Cos(Radians(c))
        sc == Sin(Radians(c))
    IN  << << MulS(ca, cb), MulS(MulS(ca, sb), sc) - MulS(sa, cc),
              MulS(MulS(ca, sb), cc) + MulS(sa, sc) >>,
           << MulS(sa, cb), MulS(MulS(sa, sb), sc) + MulS(ca, cc),
              MulS(MulS(sa, sb), cc) - MulS(ca, sc) >>,
           << -sb, MulS(cb, sc), MulS(cb, cc) >> >>

\* a 3x3 rotation matrix as the rotation part of a transform
AsTransform(R) ==
    << << R[1][1], R[1][2], R[1][3], 0 >>,
       << R[2][1], R[2][2], R[2][3], 0 >>,
       << R[3][1], R[3][2], R[3][3], 0 >>,
       << 0, 0, 0, S >> >>

\* the two orientations that differ in b as b and 180 - b, as transforms
BranchAngles == { Deg(-60), Deg(-30), Deg(0), Deg(30), Deg(60) }

BranchCalls ==
    { [fn |-> "branches",
       args |-> << AsTransform(Rzyx(a, b, c)), AsTransform(Rzyx(a, Deg(180) - b, c)), b >>] :
        a \in {Deg(0), Deg(40)}, b \in BranchAngles, c \in {Deg(0), Deg(-20)} }

\* an r x c array of distinct finite entries
Filled(r, c) == [i \in 1..r |-> [j \in 1..c |-> ((4 * i) + j) * S]]

Shapes == (3..MaxDim) \X (3..MaxDim)

ShapeMats ==
    { Filled(sh[1], sh[2]) : sh \in Shapes }
      \cup { Identity4, P, dh_matrix(A2, HalfPi, D1, Radians(Deg(30))) }

Grid == { k * (S \div GridSteps) : k \in (-GridSteps)..GridSteps }

\* a 4x4 array with the entries pose extraction reads taken from the grid
GridTransform(r11, r21, r31, r32, r33) ==
    << << r11, 0,   0,   10 * MM >>,
       << r21, S,   0,   20 * MM >>,
       << r31, r32, r33, 30 * MM >>,
       << 0,   0,   0,   S >> >>

DhCalls ==
    { [fn |-> "dh_matrix", args |-> << a, alpha, d, Radians(Deg(k * ThetaStep)) >>] :
        a \in {0, A2}, alpha \in {0, HalfPi, -HalfPi}, d \in {0, D1},
        k \in (-ThetaSteps)..ThetaSteps }

MulCalls ==
    { [fn |-> "mat4_mul", args |-> << A, B >>] : A \in ShapeMats, B \in ShapeMats }

PoseCalls ==
    { [fn |-> "pose_from_transform", args |-> << T >>] : T \in ShapeMats }
      \cup { [fn |-> "pose_from_transform",
              args |-> << GridTransform(r11, r21, r31, r32, r33) >>] :
                r11 \in Grid, r21 \in Grid, r31 \in Grid, r32 \in Grid, r33 \in Grid }

TargetCoords == { k * TargetStep * MM : k \in (-TargetSteps)..TargetSteps }
TargetAngles == { Deg(-90), Deg(0), Deg(45), Deg(180) }

Ik2Calls ==
    { [fn |-> "calculate_ik2", args |-> << x, y, z, a, b, c >>] :
        x \in TargetCoords, y \in TargetCoords, z \in TargetCoords,
        a \in TargetAngles, b \in TargetAngles, c \in TargetAngles }

\* calculate_ik adds no offset to its angles: they are drawn off the
\* multiples of 90 degrees, and the targets off the base axis, where a wrist
\* term vanishes and its sign is decided by floating-point rounding
GuardAngles == { Deg(-80), Deg(10), Deg(45), Deg(170) }

OffAxis == { t \in TargetCoords \X TargetCoords : t # << 0, 0 >> }

IkCalls ==
    { [fn |-> "calculate_ik", args |-> << t[1], t[2], z, a, b, c >>] :
        t \in OffAxis, z \in TargetCoords,
        a \in GuardAngles, b \in GuardAngles, c \in GuardAngles }

\* slider positions of the six axes (degrees)
AxisValues ==
    { << Deg(a1), Deg(a2), Deg(a3), Deg(a4), Deg(a5), Deg(a6) >> :
        a1 \in {0, 30, 90}, a2 \in {0, 60, 90}, a3 \in {-90, -45, 0},
        a4 \in {0, 10}, a5 \in {0, 20, 90}, a6 \in {0, 30} }

FkCalls ==
    { [fn |-> "apply_forward_kinematics", args |-> << q, verbos >>] :
        q \in AxisValues, verbos \in BOOLEAN }

RoundTripCalls == { [fn |-> "round_trip", args |-> << q >>] : q \in AxisValues }

OrientationAngles == { Deg(-120), Deg(-30), Deg(0), Deg(30), Deg(60) }

OrientationCalls ==
    { [fn |-> "orientation", args |-> << a, b, c >>] :
        a \in OrientationAngles, b \in OrientationAngles, c \in OrientationAngles }

\* ------------------------------------------------------------------------
\* geometry_helper.py: the transform of a shape.  A gp_Trsf is its 4x4
\* matrix; a.Multiplied(b) is the matrix product a * b, the transform that
\* applies b first and a after it.
\* ------------------------------------------------------------------------
\* the unit vector of a coordinate
Unit(x) == IF x > 0 THEN 1 ELSE IF x < 0 THEN -1 ELSE 0

\* gp_Dir(*axis): the direction of an axis along one coordinate
gp_Dir(axis) == << Unit(axis[1]), Unit(axis[2]), Unit(axis[3]) >>

\* gp_Trsf.SetRotation(gp_Ax1(gp_Pnt(0, 0, 0), u), angle): the rotation by
\* angle about the direction u through the origin, from the cosine c and
\* the sine sn of the angle
RotationOf(u, c, sn) ==
    << << c + ((S - c) * u[1] * u[1]), ((S - c) * u[1] * u[2]) - (sn * u[3]),
          ((S - c) * u[1] * u[3]) + (sn * u[2]), 0 >>,
       << ((S - c) * u[2] * u[1]) + (sn * u[3]), c + ((S - c) * u[2] * u[2]),
          ((S - c) * u[2] * u[3]) - (sn * u[1]), 0 >>,
       << ((S - c) * u[3] * u[1]) - (sn * u[2]), ((S - c) * u[3] * u[2]) + (sn * u[1]),
          c + ((S - c) * u[3] * u[3]), 0 >>,
       << 0, 0, 0, S >> >>

SetRotation(axis, angle) == RotationOf(gp_Dir(axis), Cos(angle), Sin(angle))

\* gp_Trsf.SetTranslation(gp_Vec(*tr))
SetTranslation(tr) ==
    << << S, 0, 0, tr[1] >>, << 0, S, 0, tr[2] >>, << 0, 0, S, tr[3] >>, << 0, 0, 0, S >> >>

\* me.Multiplied(T) with the operands exchanged
Multiplied_left(me, T) == MatMul(T, me)

\* gp_Trsf.Multiplied: me * T
Multiplied(me, T) == MatMul(me, T)

\* a missing value (None), an empty dictionary or tuple
None == << >>

\* lines 51-60: one entry of the list of rotations; an entry that is empty
\* or has no angle is passed over like one that has no axis
RotationStep(total_trsf, rot) ==
    IF rot.axis = None
    THEN total_trsf
    ELSE Multiplied(total_trsf, SetRotation(rot.axis, Radians(rot.angle_deg)))

\* lines 47-60: total_trsf after the first k entries of the list
RECURSIVE Rotations(_, _)
Rotations(rots, k) ==
    IF k = 0 THEN Identity4 ELSE RotationStep(Rotations(rots, k - 1), rots[k])

\* lines 62-69: the translation
Translation(total_trsf, tr) ==
    IF tr = None THEN total_trsf ELSE Multiplied(SetTranslation(tr), total_trsf)

\* get_total_transform(transform), lines 42-71
get_total_transform(transform) ==
    Translation(Rotations(transform.rotations, Len(transform.rotations)),
                transform.translate)

\* ------------------------------------------------------------------------
\* shape.py and cache.py: the STEP loader and its cache
\* ------------------------------------------------------------------------
\* main.py, lines 9-12: the listed file names (the first two)
Filenames == << "ramie0.step", "ramie1.step" >>

MaxMtime == 2
MaxChanges == 2

\* a listed file: its modification time under the name as listed (cwd) and
\* under shapes/ (sub); 0 when there is no such file.  The modification
\* time stands for the content it was written with.
FileStates == [cwd : 0..MaxMtime, sub : 0..MaxMtime]

\* cache.py, lines 18-24: what is hashed for the listed file i, the
\* resolved path and the modification time, or "missing"
KeyPart(fs, i) ==
    << Filenames[i], IF fs[i].cwd > 0 THEN ToString(fs[i].cwd) ELSE "missing" >>

\* cache.py, lines 15-25: get_cache_key; the md5 digest is taken to be free
\* of collisions, the key is the text that was hashed
get_cache_key(fs) == Array([i \in 1..Len(fs) |-> KeyPart(fs, i)])

\* every key get_cache_key can return
Keys == { get_cache_key(fs) : fs \in [1..Len(Filenames) -> FileStates] }

\* no cache file, a cache file pickle cannot read, a file save_cache wrote
Absent == [state |-> "absent", shapes |-> << >>, statuses |-> << >>]
Unreadable == [state |-> "corrupt", shapes |-> << >>, statuses |-> << >>]
Saved(shapes, statuses) == [state |-> "saved", shapes |-> shapes, statuses |-> statuses]

\* cache.py, lines 34-48: load_cache, None (hit FALSE) or (shapes, statuses)
load_cache(fs, c) ==
    IF c[get_cache_key(fs)].state = "saved"
    THEN [hit |-> TRUE, shapes |-> c[get_cache_key(fs)].shapes,
          statuses |-> c[get_cache_key(fs)].statuses]
    ELSE [hit |-> FALSE, shapes |-> << >>, statuses |-> << >>]

\* cache.py, lines 50-59: save_cache, the cache directory after it
save_cache(fs, shapes, statuses, c) ==
    [c EXCEPT ![get_cache_key(fs)] = Saved(shapes, statuses)]

\* shape.py, lines 26-29: the file ReadFile is given, p or shapes/p
Candidate(f) == IF f.cwd > 0 THEN f.cwd ELSE f.sub

RetDone == "IFSelect_RetDone"
RetFail == "IFSelect_RetFail"

\* shape.py, lines 31-34: the status of ReadFile
Status(f) == IF Candidate(f) > 0 THEN RetDone ELSE RetFail

\* shape.py, lines 40-43: the shape transferred from the file that was read
RawShape(fs, i) == [file |-> i, version |-> Candidate(fs[i]), meshed |-> FALSE,
                    centered |-> FALSE]

\* shape.py, lines 20-44: read_step_files, (None, statuses) or (shapes, statuses)
read_step_files(fs) ==
    IF \A i \in 1..Len(fs) : Status(fs[i]) = RetDone
    THEN [ok |-> TRUE, shapes |-> Array([i \in 1..Len(fs) |-> RawShape(fs, i)]),
          statuses |-> Array([i \in 1..Len(fs) |-> Status(fs[i])])]
    ELSE [ok |-> FALSE, shapes |-> << >>,
          statuses |-> Array([i \in 1..Len(fs) |-> Status(fs[i])])]

\* geometry_helper.py, lines 16-23: every shape meshed, the same shapes returned
simplify_shapes(shapes) ==
    Array([i \in 1..Len(shapes) |-> [shapes[i] EXCEPT !.meshed = TRUE]])

\* geometry_helper.py, lines 25-39: every shape moved to its bounding-box centre
center_shapes(shapes) ==
    Array([i \in 1..Len(shapes) |-> [shapes[i] EXCEPT !.centered = TRUE]])

\* what load_shapes returned: None (none TRUE) or a list; hit tells whether
\* load_cache returned data, reads counts the ReadFile calls
Outcome(none, shapes, hit, reads, c) ==
    [called |-> TRUE, none |-> none, shapes |-> shapes, hit |-> hit, reads |-> reads,
     cache |-> c]

\* shape.py, lines 62-68: the shapes read are simplified, centred and saved
Prepared(fs, c, shapes, statuses) ==
    Outcome(FALSE, shapes, FALSE, Len(fs), save_cache(fs, shapes, statuses, c))

\* lines 57-69 with the cache written also when a file could not be read
LoadedFromFiles_saving(fs, c, r) ==
    IF r.ok
    THEN Prepared(fs, c, center_shapes(simplify_shapes(r.shapes)), r.statuses)
    ELSE Outcome(TRUE, << >>, FALSE, Len(fs),
                 save_cache(fs, center_shapes(simplify_shapes(r.shapes)), r.statuses, c))

\* shape.py, lines 57-69: the cache gave nothing
LoadedFromFiles(fs, c, r) ==
    IF r.ok
    THEN Prepared(fs, c, center_shapes(simplify_shapes(r.shapes)), r.statuses)
    ELSE Outcome(TRUE, << >>, FALSE, Len(fs), c)

\* shape.py, lines 51-69, after load_cache returned cached
Loaded(fs, c, cached) ==
    IF cached.hit
    THEN Outcome(FALSE, cached.shapes, TRUE, 0, c)
    ELSE LoadedFromFiles(fs, c, read_step_files(fs))

\* the files are read whatever the cache holds
load_shapes_uncached(fs, c) == LoadedFromFiles(fs, c, read_step_files(fs))

\* shape.py, lines 46-69: StepLoader.load_shapes on the files fs and the
\* cache directory c
load_shapes(fs, c) == Loaded(fs, c, load_cache(fs, c))

NotCalled == [called |-> FALSE, none |-> TRUE, shapes |-> << >>, hit |-> FALSE,
              reads |-> 0, cache |-> << >>]

NotLooked == [called |-> FALSE, hit |-> FALSE, shapes |-> << >>, statuses |-> << >>]

\* two threads that call the core functions without synchronisation
Thread == {1, 2}

ArrayCount == 3

\* the ndarray objects the callers hold; a call receives references to them
LoadedArrays ==
    [i \in 1..ArrayCount |->
        IF i = 1 THEN Identity4 ELSE IF i = 2 THEN P ELSE Filled(i, 4)]

ThreadTargets ==
    { << 300 * MM, 0, 300 * MM, Deg(0), Deg(0), Deg(0) >>,
      << 200 * MM, 100 * MM, 150 * MM, Deg(45), Deg(10), Deg(-80) >>,
      << 600 * MM, 600 * MM, 0, Deg(0), Deg(90), Deg(0) >> }

ThreadCalls ==
    { [fn |-> "dh_matrix", args |-> << A2, HalfPi, D1, Radians(Deg(30)) >>] }
      \cup { [fn |-> "mat4_mul", args |-> << a, b >>] :
                a \in 1..ArrayCount, b \in 1..ArrayCount }
      \cup { [fn |-> "pose_from_transform", args |-> << a >>] : a \in 1..ArrayCount }
      \cup { [fn |-> "calculate_ik2", args |-> q] : q \in ThreadTargets }

\* a thread before its call: R and w are the locals of calculate_ik2, met
\* records that the thread took a step while the other was inside its call
Called(c) == [call |-> c, pc |-> "call", ret |-> Pending, R |-> << >>, w |-> << >>,
              met |-> FALSE]

Idle == Called([fn |-> "none", args |-> << >>])

\* calculate_ik2, line 173: theta = [0.0] * 6
Zeros6 == << 0, 0, 0, 0, 0, 0 >>

\* one list object for every call, at module level
Buffer_module(t) == 1

\* calculate_ik2, line 173: the list object a call of thread t binds to
\* theta; the call allocates it
Buffer(t) == t

\* fk_helper.py, lines 6-21: the module-level names after the module is loaded
LoadedGlobals ==
    [D1 |-> D1, A2 |-> A2, D4 |-> D4, D6 |-> D6, ROBOT_DH_PARAMS |-> ROBOT_DH_PARAMS]

\* a call that stores the last link length in metres in the table
Kept_rescaled(g) == [g EXCEPT !.ROBOT_DH_PARAMS[6][3] = g.D6 \div 1000]

\* the module-level names after a call: the functions of fk_helper.py and
\* the handlers of step_viewer.py read D1, A2, D4, D6 and ROBOT_DH_PARAMS
\* (fk_helper.py 109-123, 204-221; step_viewer.py 305-306) and assign
\* neither the names nor an element of the list
Kept(g) == g

\* the axes and angles of the entries of a list of rotations
RotationAxes == { << 1, 0, 0 >>, << 0, 1, 0 >>, << 0, 0, 1 >> }
RotationAngles == { Deg(30), Deg(90) }

Rotation(axis, angle) == << [origin |-> << 0, 0, 0 >>, axis |-> axis, angle_deg |-> angle] >>

\* lists of three rotations, and lists with an entry that has no axis
RotationLists ==
    { Rotation(a1, g1) \o Rotation(a2, g2) \o Rotation(a3, g3) :
        a1 \in RotationAxes, a2 \in RotationAxes, a3 \in RotationAxes,
        g1 \in RotationAngles, g2 \in RotationAngles, g3 \in { Deg(90) } }
      \cup { Rotation(a1, Deg(90)) \o Rotation(None, Deg(30)) \o Rotation(a3, Deg(30)) :
               a1 \in RotationAxes, a3 \in RotationAxes }

Translations == { None, << 10 * MM, 20 * MM, 30 * MM >> }

TransformCalls ==
    { [fn |-> "get_total_transform", args |-> << [translate |-> tr, rotations |-> rots] >>] :
        tr \in Translations, rots \in RotationLists }

\* ------------------------------------------------------------------------
\* step_viewer.py: the window.  viewer is the state of the StepViewer and
\* of its tabs, before the state at the start of the last event of the
\* user, event that event and the number of events so far.  The fields of
\* viewer: axis the six forward sliders (degrees), pose the forward pose
\* readout, desired and achieved the two readouts of the inverse tab,
\* target its six sliders, table transforms_table, draw_table, checked the
\* check boxes, displayed and local whether each AIS_Shape is displayed
\* and its local transformation, todo the setValue calls that
\* set_target_pose_values has still to make; sent, ran, errors and
\* callbacks are the packets handed to the transport, the targets on
\* which _on_inverse_kinematics_change ran, the errors logged and the
\* calls of _on_visibility_changed, all since the start of the last event.
\* ------------------------------------------------------------------------
ShapeCount == 7

ShapeIndex == 1..ShapeCount

TargetMin == -600
TargetMax == 600

\* the state after __init__ and run(): lines 78, 146-149, 166-171
InitViewer ==
    [axis |-> Zeros6, pose |-> None, desired |-> Zeros6, achieved |-> None,
     target |-> Zeros6, table |-> InitTransformsTable,
     draw_table |-> Array([i \in ShapeIndex |-> TRUE]),
     checked |-> Array([i \in ShapeIndex |-> TRUE]),
     displayed |-> Array([i \in ShapeIndex |-> TRUE]),
     local |-> Array([i \in ShapeIndex |-> Identity4]),
     todo |-> << >>, sent |-> << >>, ran |-> << >>, errors |-> 0, callbacks |-> 0]

\* no event yet
NoEvent ==
    /\ viewer = InitViewer
    /\ before = InitViewer
    /\ event = [name |-> "none", n |-> 0]

\* int(x) of a float of unit u: the fraction is cut off
Trunc(x, u) == IF x >= 0 THEN x \div u ELSE -((-x) \div u)

\* QSlider.setValue on a translation slider of the inverse tab
\* (inverse_kinematics_tab.py, lines 57-58)
SetTarget(n) == IF n < TargetMin THEN TargetMin ELSE IF n > TargetMax THEN TargetMax ELSE n

\* update_shape(index), lines 177-187, index counted from 1
update_shape(v, index) ==
    IF ~v.draw_table[index]
    THEN [v EXCEPT !.displayed[index] = FALSE]
    ELSE [v EXCEPT !.displayed[index] = TRUE,
                   !.local[index] = get_total_transform(v.table[index])]

\* lines 318-324 of apply_forward_kinematics: update_shape(i+1) for the six
\* sub-assemblies, each right after its entry of the table was written
UpdateShapes(v) ==
    [v EXCEPT !.displayed = Array([i \in ShapeIndex |->
                                IF i = 1 THEN v.displayed[1] ELSE v.draw_table[i]]),
              !.local = Array([i \in ShapeIndex |->
                                IF i > 1 /\ v.draw_table[i]
                                THEN get_total_transform(v.table[i]) ELSE v.local[i]])]

\* what apply_forward_kinematics, whose record is f, did to the window
Applied(v, f) ==
    [v EXCEPT !.axis = f.sliders, !.sent = v.sent \o f.packets, !.table = f.table,
              !.pose = f.pos]

ForwardKinematics(v, verbos, f) ==
    IF f.exc # "none" THEN v
    ELSE IF verbos THEN UpdateShapes(Applied(v, f)) ELSE Applied(v, f)

\* the six values set_target_pose_values hands to setValue, lines 171-176
TargetValues(pos) ==
    << SetTarget(Trunc(pos[1], MM)) * MM, SetTarget(Trunc(pos[2], MM)) * MM,
       SetTarget(Trunc(pos[3], MM)) * MM, Deg(SetSlider(Trunc(pos[4], S))),
       Deg(SetSlider(Trunc(pos[5], S))), Deg(SetSlider(Trunc(pos[6], S))) >>

\* _on_forward_kinematics_released, lines 347-352, up to the first setValue
\* of set_target_pose_values; g is the window after apply_forward_kinematics
ForwardReleased(g) ==
    [g EXCEPT !.desired = g.pose, !.achieved = g.pose, !.todo = TargetValues(g.pose)]

\* _on_forward_kinematics_change, lines 388-391: the solver is called on
\* the pose on which line 343 called it
ForwardChanged(g, f) == [g EXCEPT !.sent = g.sent \o << send(0, f.ik) >>]

\* _on_inverse_kinematics_change, lines 394-396, after _handle_slider_change
\* (inverse_kinematics_tab.py, lines 147-150) refreshed the desired readout
on_inverse_kinematics_change(v) ==
    [v EXCEPT !.desired = v.target,
              !.ran = Append(v.ran, v.target),
              !.sent = Append(v.sent, send(0, calculate_ik2(v.target[1], v.target[2],
                                                            v.target[3], v.target[4],
                                                            v.target[5], v.target[6])))]

\* setValue(val) on target slider k: valueChanged is emitted when the value
\* changes
SetValue(v, k, val) ==
    IF v.target[k] = val THEN v
    ELSE on_inverse_kinematics_change([v EXCEPT !.target[k] = val])

\* set_target_pose_values, line 177, once the last slider is set
Refreshed(v) == IF v.todo = << >> THEN [v EXCEPT !.desired = v.target] ELSE v

\* set_axis_values, forward_kinematics_tab.py lines 105-111: signals blocked
set_axis_values(o) ==
    << SetSlider(Trunc(o[1], S)), SetSlider(Trunc(o[2], S)), SetSlider(Trunc(o[3], S)),
       SetSlider(Trunc(o[4], S)), SetSlider(Trunc(o[5], S)), SetSlider(Trunc(o[6], S)) >>

\* lines 369-377 of _on_inverse_kinematics_released, with the packet sent
\* before the forward kinematics
Solved_sending(v, o, f) ==
    IF f.exc # "none"
    THEN [v EXCEPT !.achieved = Zeros6, !.errors = v.errors + 1,
                   !.sent = Append(v.sent, send(0, o))]
    ELSE [ForwardKinematics(v, TRUE, f) EXCEPT
              !.sent = v.sent \o f.packets \o << send(0, o) >>,
              !.desired = v.target, !.achieved = f.pos,
              !.axis = set_axis_values(o)]

\* lines 365-384 of _on_inverse_kinematics_released: o the joint angles of
\* the solver, f the record of apply_forward_kinematics on them
Solved(v, o, f) ==
    IF f.exc # "none"
    THEN [v EXCEPT !.achieved = Zeros6, !.errors = v.errors + 1]
    ELSE [ForwardKinematics(v, TRUE, f) EXCEPT
              !.sent = v.sent \o f.packets \o << send(0, o) >>,
              !.desired = v.target, !.achieved = f.pos,
              !.axis = set_axis_values(o)]

InverseReleased(v, o) == Solved(v, o, apply_forward_kinematics(o, TRUE, v.table))

\* _on_inverse_kinematics_released, lines 354-384, after
\* _handle_slider_released refreshed the desired readout
on_inverse_kinematics_released(v) ==
    InverseReleased([v EXCEPT !.desired = v.target],
                    calculate_ik2(v.target[1], v.target[2], v.target[3],
                                  v.target[4], v.target[5], v.target[6]))

\* _on_visibility_changed(idx, state), lines 398-406, after the check box
\* changed its state
on_visibility_changed(v, idx) ==
    update_shape([v EXCEPT !.checked[idx] = ~v.checked[idx],
                           !.draw_table[idx] = ~v.checked[idx],
                           !.callbacks = v.callbacks + 1], idx)

\* set_all_checkboxes with the signals of the check boxes left on
set_all_checkboxes_signalling(v, value) ==
    [v EXCEPT !.checked = Array([i \in ShapeIndex |-> value]),
              !.callbacks = v.callbacks +
                  Cardinality({i \in ShapeIndex : v.checked[i] # value})]

\* VisibilityTab.set_all_checkboxes, visibility_tab.py lines 96-103
set_all_checkboxes(v, value) ==
    [v EXCEPT !.checked = Array([i \in ShapeIndex |-> value])]

\* _set_all_visibility, lines 408-418
set_all_visibility(v, value) ==
    set_all_checkboxes(
        [v EXCEPT !.draw_table = Array([i \in ShapeIndex |-> value]),
                  !.displayed = Array([i \in ShapeIndex |-> value]),
                  !.local = Array([i \in ShapeIndex |->
                                IF value THEN get_total_transform(v.table[i])
                                ELSE v.local[i]])],
        value)


Init ==
    /\ \/ call \in DhCalls
       \/ call \in MulCalls
       \/ call \in PoseCalls
       \/ call \in Ik2Calls
       \/ call \in IkCalls
       \/ call \in FkCalls
       \/ call \in RoundTripCalls
       \/ call \in OrientationCalls
       \/ call \in TransformCalls
       \/ call \in BranchCalls
    /\ pc = "call"
    /\ ret = Pending
    /\ log = << >>
    /\ globals = LoadedGlobals
    /\ threads = [t \in Thread |-> Idle]
    /\ arrays = LoadedArrays
    /\ lists = [t \in Thread |-> Zeros6]
    /\ files = [i \in 1..Len(Filenames) |-> [cwd |-> 0, sub |-> 0]]
    /\ cache = [k \in Keys |-> Absent]
    /\ loader = NotCalled
    /\ got = NotLooked
    /\ changes = 0
    /\ since = "never"
    /\ NoSerialManager
    /\ NoEvent

CallDhMatrix ==
    /\ pc = "call" /\ call.fn = "dh_matrix"
    /\ ret' = Ok(dh_matrix(call.args[1], call.args[2], call.args[3], call.args[4]))
    /\ pc' = "done"
    /\ globals' = Kept(globals)
    /\ UNCHANGED << thrVars, fsVars, serVars, guiVars >>
    /\ UNCHANGED << call, log >>

CallMat4Mul ==
    /\ pc = "call" /\ call.fn = "mat4_mul"
    /\ ret' = mat4_mul(call.args[1], call.args[2])
    /\ pc' = "done"
    /\ globals' = Kept(globals)
    /\ UNCHANGED << thrVars, fsVars, serVars, guiVars >>
    /\ UNCHANGED << call, log >>

CallPoseFromTransform ==
    /\ pc = "call" /\ call.fn = "pose_from_transform"
    /\ ret' = pose_from_transform(call.args[1])
    /\ pc' = "done"
    /\ globals' = Kept(globals)
    /\ UNCHANGED << thrVars, fsVars, serVars, guiVars >>
    /\ UNCHANGED << call, log >>

CallCalculateIk2 ==
    /\ pc = "call" /\ call.fn = "calculate_ik2"
    /\ ret' = Ok(calculate_ik2(call.args[1], call.args[2], call.args[3],
                               call.args[4], call.args[5], call.args[6]))
    /\ pc' = "done"
    /\ globals' = Kept(globals)
    /\ UNCHANGED << thrVars, fsVars, serVars, guiVars >>
    /\ UNCHANGED << call, log >>

CallCalculateIk ==
    /\ pc = "call" /\ call.fn = "calculate_ik"
    /\ ret' = Ok(calculate_ik(call.args[1], call.args[2], call.args[3],
                              call.args[4], call.args[5], call.args[6]))
    /\ pc' = "done"
    /\ globals' = Kept(globals)
    /\ UNCHANGED << thrVars, fsVars, serVars, guiVars >>
    /\ UNCHANGED << call, log >>

\* line 298: the only log entry of apply_forward_kinematics
FkLog == << [level |-> "info", event |-> "axis_values"] >>

\* what a forward-kinematics call hands back: its record, and the exception
\* it raised if any
FkReturn(f) == [exc |-> f.exc, val |-> f]

CallApplyForwardKinematics ==
    /\ pc = "call" /\ call.fn = "apply_forward_kinematics"
    /\ ret' = FkReturn(apply_forward_kinematics(call.args[1], call.args[2],
                                                InitTransformsTable))
    /\ log' = IF ret'.exc = "none" THEN log \o FkLog ELSE log
    /\ pc' = "done"
    /\ globals' = Kept(globals)
    /\ UNCHANGED << thrVars, fsVars, serVars, guiVars >>
    /\ UNCHANGED call

\* the pose forward kinematics returned, after the values of the earlier steps
PoseAfter(earlier, f) == [exc |-> f.exc, val |-> Append(earlier, f.pos)]

\* forward kinematics of the drawn joint angles
RoundTripForward ==
    /\ pc = "call" /\ call.fn = "round_trip"
    /\ ret' = PoseAfter(<< >>, apply_forward_kinematics(call.args[1], FALSE,
                                                        InitTransformsTable))
    /\ log' = IF ret'.exc = "none" THEN log \o FkLog ELSE log
    /\ pc' = "forward"
    /\ globals' = Kept(globals)
    /\ UNCHANGED << thrVars, fsVars, serVars, guiVars >>
    /\ UNCHANGED call

\* the inverse solver on the pose forward kinematics returned
RoundTripInverse ==
    /\ pc = "forward" /\ call.fn = "round_trip"
    /\ LET pos == ret.val[1]
       IN  ret' = Ok(<< pos, calculate_ik2(pos[1], pos[2], pos[3], pos[4], pos[5], pos[6]) >>)
    /\ pc' = "inverse"
    /\ globals' = Kept(globals)
    /\ UNCHANGED << thrVars, fsVars, serVars, guiVars >>
    /\ UNCHANGED << call, log >>

\* forward kinematics of the joint angles the inverse solver returned
RoundTripForwardAgain ==
    /\ pc = "inverse" /\ call.fn = "round_trip"
    /\ ret' = PoseAfter(ret.val, apply_forward_kinematics(ret.val[2], TRUE,
                                                          InitTransformsTable))
    /\ log' = IF ret'.exc = "none" THEN log \o FkLog ELSE log
    /\ pc' = "done"
    /\ globals' = Kept(globals)
    /\ UNCHANGED << thrVars, fsVars, serVars, guiVars >>
    /\ UNCHANGED call


\* the inverse solver builds its rotation matrix from the drawn orientation
BuildRotation ==
    /\ pc = "call" /\ call.fn = "orientation"
    /\ ret' = Ok(<< Ik2Rotation(call.args[1], call.args[2], call.args[3]) >>)
    /\ pc' = "built"
    /\ globals' = Kept(globals)
    /\ UNCHANGED << thrVars, fsVars, serVars, guiVars >>
    /\ UNCHANGED << call, log >>

\* the matrix R and what pose extraction returned for it
Extracted(R, e) == [exc |-> e.exc, val |-> << R, e.val >>]

\* pose extraction applied to a transform carrying that matrix
ExtractRotation ==
    /\ pc = "built" /\ call.fn = "orientation"
    /\ ret' = Extracted(ret.val[1], pose_from_transform(AsTransform(ret.val[1])))
    /\ pc' = "done"
    /\ globals' = Kept(globals)
    /\ UNCHANGED << thrVars, fsVars, serVars, guiVars >>
    /\ UNCHANGED << call, log >>

\* pose_from_transform on each of two transforms
CallPoseFromTransformTwice ==
    /\ pc = "call" /\ call.fn = "branches"
    /\ ret' = Ok(<< pose_from_transform(call.args[1]).val,
                    pose_from_transform(call.args[2]).val >>)
    /\ pc' = "done"
    /\ globals' = Kept(globals)
    /\ UNCHANGED << thrVars, fsVars, serVars, guiVars >>
    /\ UNCHANGED << call, log >>

CallGetTotalTransform ==
    /\ pc = "call" /\ call.fn = "get_total_transform"
    /\ ret' = Ok(get_total_transform(call.args[1]))
    /\ pc' = "done"
    /\ globals' = Kept(globals)
    /\ UNCHANGED << thrVars, fsVars, serVars, guiVars >>
    /\ UNCHANGED << call, log >>

Next ==
    \/ CallDhMatrix
    \/ CallMat4Mul
    \/ CallPoseFromTransform
    \/ CallCalculateIk2
    \/ CallCalculateIk
    \/ CallApplyForwardKinematics
    \/ RoundTripForward
    \/ RoundTripInverse
    \/ RoundTripForwardAgain
    \/ BuildRotation
    \/ ExtractRotation
    \/ CallGetTotalTransform
    \/ CallPoseFromTransformTwice

Spec == Init /\ [][Next]_vars

TypeOK ==
    /\ pc \in {"call", "forward", "inverse", "built", "done", "threads", "cache", "serial", "window"}
    /\ ret.exc \in {"pending", "none", "ValueError"}

\* ------------------------------------------------------------------------
\* Two threads calling dh_matrix, mat4_mul, pose_from_transform and
\* calculate_ik2 concurrently.  A call advances in steps between which the
\* other thread may run; arrays are the argument objects the callers share,
\* lists the list objects calculate_ik2 binds to theta.
\* ------------------------------------------------------------------------
InitThreads ==
    /\ call = [fn |-> "threads", args |-> << >>]
    /\ pc = "threads"
    /\ ret = Pending
    /\ log = << >>
    /\ globals = LoadedGlobals
    /\ threads \in [Thread -> { Called(c) : c \in ThreadCalls }]
    /\ arrays = LoadedArrays
    /\ lists = [t \in Thread |-> Zeros6]
    /\ files = [i \in 1..Len(Filenames) |-> [cwd |-> 0, sub |-> 0]]
    /\ cache = [k \in Keys |-> Absent]
    /\ loader = NotCalled
    /\ got = NotLooked
    /\ changes = 0
    /\ since = "never"
    /\ NoSerialManager
    /\ NoEvent

\* thread t takes a step while the other thread is inside its call
Meets(t) == threads[t].met \/ threads[3 - t].pc \notin {"call", "done"}

\* thread t returns or raises r
Returned(t, r) == [threads[t] EXCEPT !.ret = r, !.pc = "done", !.met = Meets(t)]

\* thread t moves on to position p
At(t, p) == [threads[t] EXCEPT !.pc = p, !.met = Meets(t)]

\* dh_matrix, lines 25-35
ThreadDhMatrix(t) ==
    /\ threads[t].pc = "call" /\ threads[t].call.fn = "dh_matrix"
    /\ threads' = [threads EXCEPT ![t] =
                     Returned(t, Ok(dh_matrix(threads[t].call.args[1], threads[t].call.args[2],
                                              threads[t].call.args[3], threads[t].call.args[4])))]
    /\ globals' = Kept(globals)
    /\ UNCHANGED << kinVars, fsVars, serVars, guiVars, arrays, lists >>

\* what mat4_mul makes of the objects it was handed, as they are now
MulNow(t) == mat4_mul(arrays[threads[t].call.args[1]], arrays[threads[t].call.args[2]])

\* mat4_mul, lines 44-47: np.asarray and the shape check
ThreadMulCheck(t) ==
    /\ threads[t].pc = "call" /\ threads[t].call.fn = "mat4_mul"
    /\ threads' = [threads EXCEPT ![t] =
                     IF MulNow(t).exc = "none" THEN At(t, "checked")
                     ELSE Returned(t, MulNow(t))]
    /\ globals' = Kept(globals)
    /\ UNCHANGED << kinVars, fsVars, serVars, guiVars, arrays, lists >>

\* mat4_mul, line 48: A @ B, a new array
ThreadMulProduct(t) ==
    /\ threads[t].pc = "checked" /\ threads[t].call.fn = "mat4_mul"
    /\ threads' = [threads EXCEPT ![t] = Returned(t, MulNow(t))]
    /\ globals' = Kept(globals)
    /\ UNCHANGED << kinVars, fsVars, serVars, guiVars, arrays, lists >>

\* what pose_from_transform makes of the object it was handed, as it is now
PoseNow(t) == pose_from_transform(arrays[threads[t].call.args[1]])

\* pose_from_transform, lines 53-55: np.asarray and the shape check
ThreadPoseCheck(t) ==
    /\ threads[t].pc = "call" /\ threads[t].call.fn = "pose_from_transform"
    /\ threads' = [threads EXCEPT ![t] =
                     IF PoseNow(t).exc = "none" THEN At(t, "checked")
                     ELSE Returned(t, PoseNow(t))]
    /\ globals' = Kept(globals)
    /\ UNCHANGED << kinVars, fsVars, serVars, guiVars, arrays, lists >>

\* pose_from_transform, lines 57-82: the entries read and the pose returned
ThreadPoseExtract(t) ==
    /\ threads[t].pc = "checked" /\ threads[t].call.fn = "pose_from_transform"
    /\ threads' = [threads EXCEPT ![t] = Returned(t, PoseNow(t))]
    /\ globals' = Kept(globals)
    /\ UNCHANGED << kinVars, fsVars, serVars, guiVars, arrays, lists >>

\* calculate_ik2, lines 173-201: the list theta and the rotation matrix
ThreadIkStart(t) ==
    /\ threads[t].pc = "call" /\ threads[t].call.fn = "calculate_ik2"
    /\ lists' = [lists EXCEPT ![Buffer(t)] = Zeros6]
    /\ threads' = [threads EXCEPT ![t] =
                     [At(t, "rotation") EXCEPT
                        !.R = Ik2Rotation(threads[t].call.args[4], threads[t].call.args[5],
                                          threads[t].call.args[6])]]
    /\ globals' = Kept(globals)
    /\ UNCHANGED << kinVars, fsVars, serVars, guiVars, arrays >>

\* calculate_ik2, lines 204-224: theta[0], theta[1], theta[2] stored
ThreadIkArm(t) ==
    /\ threads[t].pc = "rotation" /\ threads[t].call.fn = "calculate_ik2"
    /\ lists' = [lists EXCEPT ![Buffer(t)] =
                   Ik2Joints(Ik2Arm(threads[t].call.args[1], threads[t].call.args[2],
                                    threads[t].call.args[3], threads[t].R))
                     \o SubSeq(lists[Buffer(t)], 4, 6)]
    /\ threads' = [threads EXCEPT ![t] = At(t, "arm")]
    /\ globals' = Kept(globals)
    /\ UNCHANGED << kinVars, fsVars, serVars, guiVars, arrays >>

\* calculate_ik2, lines 231-235: ax, ay, az, sz, nz from theta[0..2]
ThreadIkTerms(t) ==
    /\ threads[t].pc = "arm" /\ threads[t].call.fn = "calculate_ik2"
    /\ threads' = [threads EXCEPT ![t] =
                     [At(t, "terms") EXCEPT !.w = Ik2Wrist(threads[t].R, lists[Buffer(t)])]]
    /\ globals' = Kept(globals)
    /\ UNCHANGED << kinVars, fsVars, serVars, guiVars, arrays, lists >>

\* calculate_ik2, lines 238-240: theta[3], theta[4], theta[5] stored
ThreadIkWrist(t) ==
    /\ threads[t].pc = "terms" /\ threads[t].call.fn = "calculate_ik2"
    /\ lists' = [lists EXCEPT ![Buffer(t)] =
                   SubSeq(lists[Buffer(t)], 1, 3) \o Ik2WristAngles(threads[t].w)]
    /\ threads' = [threads EXCEPT ![t] = At(t, "wrist")]
    /\ globals' = Kept(globals)
    /\ UNCHANGED << kinVars, fsVars, serVars, guiVars, arrays >>

\* calculate_ik2, lines 243-246: the list in degrees, returned as a tuple
ThreadIkReturn(t) ==
    /\ threads[t].pc = "wrist" /\ threads[t].call.fn = "calculate_ik2"
    /\ threads' = [threads EXCEPT ![t] =
                     Returned(t, Ok(Array([i \in 1..6 |-> Degrees(lists[Buffer(t)][i])])))]
    /\ globals' = Kept(globals)
    /\ UNCHANGED << kinVars, fsVars, serVars, guiVars, arrays, lists >>

NextThreads ==
    \/ \E t \in Thread : ThreadDhMatrix(t)
    \/ \E t \in Thread : ThreadMulCheck(t)
    \/ \E t \in Thread : ThreadMulProduct(t)
    \/ \E t \in Thread : ThreadPoseCheck(t)
    \/ \E t \in Thread : ThreadPoseExtract(t)
    \/ \E t \in Thread : ThreadIkStart(t)
    \/ \E t \in Thread : ThreadIkArm(t)
    \/ \E t \in Thread : ThreadIkTerms(t)
    \/ \E t \in Thread : ThreadIkWrist(t)
    \/ \E t \in Thread : ThreadIkReturn(t)

SpecThreads == InitThreads /\ [][NextThreads]_vars

\* ------------------------------------------------------------------------
\* The loader and the cache on a file system that changes between calls:
\* files are the listed STEP files, cache the cache directory, loader what
\* the last load_shapes did, got what the last load_cache returned; since
\* tells what happened after the last save_cache ("never": none yet,
\* "saved": nothing, "changed": a listed file changed, "damaged": the cache
\* file was damaged).
\* ------------------------------------------------------------------------
InitCache ==
    /\ call = [fn |-> "cache", args |-> << >>]
    /\ pc = "cache"
    /\ ret = Pending
    /\ log = << >>
    /\ globals = LoadedGlobals
    /\ threads = [t \in Thread |-> Idle]
    /\ arrays = LoadedArrays
    /\ lists = [t \in Thread |-> Zeros6]
    /\ files \in [1..Len(Filenames) -> FileStates]
    /\ cache = [k \in Keys |-> Absent]
    /\ loader = NotCalled
    /\ got = NotLooked
    /\ changes = 0
    /\ since = "never"
    /\ NoSerialManager
    /\ NoEvent

\* step_viewer.py, line 162: StepLoader(filenames, cache_dir).load_shapes()
LoadShapes ==
    /\ loader' = load_shapes(files, cache)
    /\ cache' = loader'.cache
    /\ since' = IF loader'.hit \/ loader'.none THEN since ELSE "saved"
    /\ got' = NotLooked
    /\ UNCHANGED << kinVars, globals, thrVars, serVars, guiVars, files, changes >>

\* what a call of load_cache returned
Looked(r) == [called |-> TRUE, hit |-> r.hit, shapes |-> r.shapes, statuses |-> r.statuses]

\* CacheHelper.load_cache(filenames, cache_dir)
CallLoadCache ==
    /\ got' = Looked(load_cache(files, cache))
    /\ UNCHANGED << kinVars, globals, thrVars, serVars, guiVars, files, cache, loader, changes, since >>

\* CacheHelper.save_cache(filenames, shapes, statuses, cache_dir) with the
\* shapes of the files as they are
CallSaveCache ==
    /\ read_step_files(files).ok
    /\ cache' = save_cache(files, center_shapes(simplify_shapes(read_step_files(files).shapes)),
                           read_step_files(files).statuses, cache)
    /\ since' = "saved"
    /\ got' = NotLooked
    /\ UNCHANGED << kinVars, globals, thrVars, serVars, guiVars, files, loader, changes >>

\* a listed file is written, created or removed, under its name or in shapes/
ChangeFile ==
    /\ changes < MaxChanges
    /\ \E i \in 1..Len(Filenames), f \in FileStates :
          /\ f # files[i]
          /\ f.cwd = files[i].cwd \/ f.sub = files[i].sub
          /\ files' = [files EXCEPT ![i] = f]
          /\ since' = IF f.cwd # files[i].cwd \/ files[i].cwd = 0 THEN "changed" ELSE since
    /\ changes' = changes + 1
    /\ got' = NotLooked
    /\ UNCHANGED << kinVars, globals, thrVars, serVars, guiVars, cache, loader >>

\* the cache file of the present key is damaged
DamageCache ==
    /\ changes < MaxChanges
    /\ cache[get_cache_key(files)].state = "saved"
    /\ cache' = [cache EXCEPT ![get_cache_key(files)] = Unreadable]
    /\ changes' = changes + 1
    /\ since' = IF since = "saved" THEN "damaged" ELSE since
    /\ got' = NotLooked
    /\ UNCHANGED << kinVars, globals, thrVars, serVars, guiVars, files, loader >>

NextCache ==
    \/ LoadShapes
    \/ CallLoadCache
    \/ CallSaveCache
    \/ ChangeFile
    \/ DamageCache

SpecCache == InitCache /\ [][NextCache]_vars

\* ------------------------------------------------------------------------
\* A SerialManager driven by one thread, with the reader threads it starts.
\* ------------------------------------------------------------------------
\* __init__, lines 16-27: the port opens or serial.Serial raises
InitSerial ==
    /\ call = [fn |-> "serial", args |-> << >>]
    /\ pc = "serial"
    /\ ret = Pending
    /\ log = << >>
    /\ globals = LoadedGlobals
    /\ threads = [t \in Thread |-> Idle]
    /\ arrays = LoadedArrays
    /\ lists = [t \in Thread |-> Zeros6]
    /\ files = [i \in 1..Len(Filenames) |-> [cwd |-> 0, sub |-> 0]]
    /\ cache = [k \in Keys |-> Absent]
    /\ loader = NotCalled
    /\ got = NotLooked
    /\ changes = 0
    /\ since = "never"
    /\ port \in {"none", "open"}
    /\ running = FALSE
    /\ thread = 0
    /\ readers = [t \in Reader |-> "unborn"]
    /\ main = "idle"
    /\ wrote = NoWrite
    /\ closed = FALSE
    /\ NoEvent

\* the threads not started yet, and the next one
Unborn == {t \in Reader : readers[t] = "unborn"}
NextReader == CHOOSE t \in Unborn : \A u \in Unborn : t <= u

\* start_reader, lines 35-40
StartReader ==
    /\ main = "idle"
    /\ IF ~is_open(port) \/ running
       THEN UNCHANGED << running, thread, readers >>
       ELSE /\ Unborn # {}
            /\ running' = TRUE
            /\ thread' = NextReader
            /\ readers' = [readers EXCEPT ![NextReader] = "test"]
    /\ UNCHANGED << kinVars, globals, thrVars, fsVars, guiVars, port, main, wrote, closed >>

\* stop_reader, lines 43-44: up to the join
StopReader ==
    /\ main = "idle"
    /\ running' = FALSE
    /\ main' = IF thread = 0 THEN "idle" ELSE "stop"
    /\ UNCHANGED << kinVars, globals, thrVars, fsVars, guiVars, port, thread, readers, wrote, closed >>

\* close, lines 72-73: stop_reader up to the join; with no thread to join
\* lines 74-75 follow at once
CallClose ==
    /\ main = "idle"
    /\ running' = FALSE
    /\ main' = IF thread = 0 THEN "idle" ELSE "close"
    /\ port' = IF thread = 0 THEN Closed(port) ELSE port
    /\ closed' = (closed \/ thread = 0)
    /\ UNCHANGED << kinVars, globals, thrVars, fsVars, guiVars, thread, readers, wrote >>

\* lines 45-46: join(timeout=0.5) returns, the thread having ended or the
\* time having passed while the thread is in readline, the callback or
\* sleep; in close, lines 74-75 follow
Join ==
    /\ main \in {"stop", "close"}
    /\ readers[thread] \in {"dead", "read"}
    /\ thread' = 0
    /\ main' = "idle"
    /\ port' = IF main = "close" THEN Closed(port) ELSE port
    /\ closed' = (closed \/ main = "close")
    /\ UNCHANGED << kinVars, globals, thrVars, fsVars, guiVars, running, readers, wrote >>

\* _reader_loop, line 49: the loop test
ReaderTest(t) ==
    /\ readers[t] = "test"
    /\ readers' = [readers EXCEPT ![t] = IF running /\ port # "none" THEN "read" ELSE "dead"]
    /\ UNCHANGED << kinVars, globals, thrVars, fsVars, guiVars, port, running, thread, main, wrote, closed >>

\* _reader_loop, lines 50-59: readline, the callback, or the sleep after an
\* exception, then back to the loop test
ReaderRead(t) ==
    /\ readers[t] = "read"
    /\ readers' = [readers EXCEPT ![t] = "test"]
    /\ UNCHANGED << kinVars, globals, thrVars, fsVars, guiVars, port, running, thread, main, wrote, closed >>

\* write(data), lines 61-69
CallWrite ==
    /\ main = "idle"
    /\ \E fault \in Faults : wrote' = Written(port, fault, closed, write(port, fault))
    /\ UNCHANGED << kinVars, globals, thrVars, fsVars, guiVars, port, running, thread, readers, main, closed >>

NextSerial ==
    \/ StartReader
    \/ StopReader
    \/ CallClose
    \/ Join
    \/ \E t \in Reader : ReaderTest(t)
    \/ \E t \in Reader : ReaderRead(t)
    \/ CallWrite

SpecSerial == InitSerial /\ [][NextSerial]_vars

\* ------------------------------------------------------------------------
\* The window under the events of the user: the handlers of the sliders of
\* the two kinematics tabs and of the visibility tab, called one after the
\* other by the event loop.
\* ------------------------------------------------------------------------
MaxEvents == 3

\* positions the user gives the six forward sliders (degrees)
ForwardSliders == { << 0, 60, 0, 0, 0, 0 >>, << 30, 0, -90, 0, 20, 0 >> }

\* positions the user drags a target slider to
TargetMoves == { [k |-> 2, val |-> 600 * MM], [k |-> 5, val |-> Deg(45)] }

\* the check boxes the user clicks: that of the base and that of a
\* sub-assembly
Clicked == { 1, 3 }

InitWindow ==
    /\ call = [fn |-> "window", args |-> << >>]
    /\ pc = "window"
    /\ ret = Pending
    /\ log = << >>
    /\ globals = LoadedGlobals
    /\ threads = [t \in Thread |-> Idle]
    /\ arrays = LoadedArrays
    /\ lists = [t \in Thread |-> Zeros6]
    /\ files = [i \in 1..Len(Filenames) |-> [cwd |-> 0, sub |-> 0]]
    /\ cache = [k \in Keys |-> Absent]
    /\ loader = NotCalled
    /\ got = NotLooked
    /\ changes = 0
    /\ since = "never"
    /\ NoSerialManager
    /\ NoEvent

\* the event loop is idle and the user acts
Ready == viewer.todo = << >> /\ event.n < MaxEvents

UserEvent(name) == [name |-> name, n |-> event.n + 1]

\* the window at the start of an event
Fresh(v) == [v EXCEPT !.sent = << >>, !.ran = << >>, !.errors = 0, !.callbacks = 0]

\* get_axis_values, forward_kinematics_tab.py lines 101-103
get_axis_values(v) ==
    << Deg(v.axis[1]), Deg(v.axis[2]), Deg(v.axis[3]),
       Deg(v.axis[4]), Deg(v.axis[5]), Deg(v.axis[6]) >>

\* lines 348-352 or 389-391: what follows apply_forward_kinematics
ForwardHandled(g, verbos, f) ==
    IF verbos THEN ForwardReleased(g) ELSE ForwardChanged(g, f)

ForwardDone(v, verbos, f) == ForwardHandled(ForwardKinematics(v, verbos, f), verbos, f)

\* _on_forward_kinematics_released (verbos) or _on_forward_kinematics_change
on_forward_kinematics(v, verbos) ==
    ForwardDone(v, verbos, apply_forward_kinematics(get_axis_values(v), verbos, v.table))

\* the user sets the forward sliders and lets go: the handler of the
\* release, or the handler of a change
ForwardSlidersEvent ==
    /\ Ready
    /\ \E q \in ForwardSliders, verbos \in BOOLEAN :
          /\ viewer' = on_forward_kinematics([Fresh(viewer) EXCEPT !.axis = q], verbos)
          /\ event' = UserEvent(IF verbos THEN "forward_released" ELSE "forward_change")
    /\ before' = viewer
    /\ UNCHANGED << kinVars, globals, thrVars, fsVars, serVars >>

\* set_target_pose_values, lines 171-177: the next setValue
SetTargetValue ==
    /\ viewer.todo # << >>
    /\ viewer' = Refreshed(SetValue([viewer EXCEPT !.todo = Tail(viewer.todo)],
                                    7 - Len(viewer.todo), Head(viewer.todo)))
    /\ UNCHANGED << kinVars, globals, thrVars, fsVars, serVars, before, event >>

\* the user drags a target slider
DragTarget ==
    /\ Ready
    /\ \E m \in TargetMoves :
          /\ viewer.target[m.k] # m.val
          /\ viewer' = SetValue(Fresh(viewer), m.k, m.val)
    /\ before' = viewer
    /\ event' = UserEvent("inverse_change")
    /\ UNCHANGED << kinVars, globals, thrVars, fsVars, serVars >>

\* the user releases a target slider
ReleaseTarget ==
    /\ Ready
    /\ viewer' = on_inverse_kinematics_released(Fresh(viewer))
    /\ before' = viewer
    /\ event' = UserEvent("inverse_released")
    /\ UNCHANGED << kinVars, globals, thrVars, fsVars, serVars >>

\* the user clicks a check box
ToggleCheckBox ==
    /\ Ready
    /\ \E idx \in Clicked : viewer' = on_visibility_changed(Fresh(viewer), idx)
    /\ before' = viewer
    /\ event' = UserEvent("visibility")
    /\ UNCHANGED << kinVars, globals, thrVars, fsVars, serVars >>

\* the user clicks "select all" or "select none"
SetAllVisibility ==
    /\ Ready
    /\ \E value \in BOOLEAN : viewer' = set_all_visibility(Fresh(viewer), value)
    /\ before' = viewer
    /\ event' = UserEvent("set_all")
    /\ UNCHANGED << kinVars, globals, thrVars, fsVars, serVars >>

NextWindow ==
    \/ ForwardSlidersEvent
    \/ SetTargetValue
    \/ DragTarget
    \/ ReleaseTarget
    \/ ToggleCheckBox
    \/ SetAllVisibility

SpecWindow == InitWindow /\ [][NextWindow]_vars

\* ------------------------------------------------------------------------
\* Properties
\* ------------------------------------------------------------------------
Done(fn) == pc = "done" /\ call.fn = fn

Is4x4(M) == Len(M) = 4 /\ \A i \in 1..4 : Len(M[i]) = 4

\* tolerances of the comparisons: half a millimetre, half a degree
TolLen == MM \div 2
TolDeg == S \div 2

Close(u, v, tol) == u # NaN /\ v # NaN /\ Abs(u - v) <= tol

\* angles in degrees compared modulo a full turn
AngClose(u, v, tol) ==
    /\ u # NaN /\ v # NaN
    /\ LET d == Abs(u - v) % Deg(360) IN d <= tol \/ Deg(360) - d <= tol

PoseClose(p, q) ==
    /\ Close(p[1], q[1], TolLen) /\ Close(p[2], q[2], TolLen) /\ Close(p[3], q[3], TolLen)
    /\ AngClose(p[4], q[4], TolDeg) /\ AngClose(p[5], q[5], TolDeg)
    /\ AngClose(p[6], q[6], TolDeg)

\* row-by-column product of two 4x4 matrices of finite entries
ProductEntry(A, B, i, j) ==
    MulS(A[i][1], B[1][j]) + MulS(A[i][2], B[2][j])
      + MulS(A[i][3], B[3][j]) + MulS(A[i][4], B[4][j])

ProductRow(A, B, i) ==
    << ProductEntry(A, B, i, 1), ProductEntry(A, B, i, 2),
       ProductEntry(A, B, i, 3), ProductEntry(A, B, i, 4) >>

Product(A, B) ==
    << ProductRow(A, B, 1), ProductRow(A, B, 2), ProductRow(A, B, 3), ProductRow(A, B, 4) >>

\* perJoint[1] x perJoint[2] x ... x perJoint[i], multiplied in ascending order
RECURSIVE AscendingProduct(_, _)
AscendingProduct(perJoint, i) ==
    IF i = 1 THEN perJoint[1]
    ELSE Product(AscendingProduct(perJoint, i - 1), perJoint[i])

\* C1: when forward kinematics extracts the poses of the six frames, the
\* cumulative transform of frame 1 is the DH transform of joint 1 and the
\* cumulative transform of every later frame i is cumulative[i-1] x perJoint[i],
\* i.e. the product of the per-joint transforms 1..i in ascending order.
C1_ChainComposition ==
    (Done("apply_forward_kinematics") /\ ret.exc = "none") =>
        LET f == ret.val
        IN  /\ \A i \in 1..6 :
                 f.dh[i] = JointTransform(i, call.args[1][i] + FkOffset)
            /\ f.tr[1] = f.dh[1]
            /\ \A i \in 2..6 : f.tr[i] = Product(f.tr[i - 1], f.dh[i])
            /\ \A i \in 1..6 : f.tr[i] = AscendingProduct(f.dh, i)
            /\ \A i \in 1..6 : f.poses[i] = PoseOf(f.tr[i])

\* a forward-kinematics call in which the order of the product matters
C1_Witness ==
    /\ Done("apply_forward_kinematics") /\ ret.exc = "none"
    /\ ret.val.tr[2] # Product(ret.val.dh[2], ret.val.dh[1])
    /\ ret.val.tr[6] # ret.val.dh[6]

\* C2: round trip.  For joint angles within the limits, the pose returned by
\* forward kinematics, fed to the inverse solver, gives joint angles whose
\* forward kinematics reproduces the same pose within tolerance.
C2_RoundTrip ==
    Done("round_trip") =>
        /\ ret.exc = "none"
        /\ PoseClose(ret.val[1], ret.val[3])

HomeAngles == << 0, 0, 0, 0, 0, 0 >>

AtHome == Done("apply_forward_kinematics") /\ call.args[1] = HomeAngles

\* C3 as stated: at the home angles forward kinematics returns x = 0, y = 0,
\* z = D1 + D4 + D6 = 467.4 and a = b = c = 0.
C3_HomePoseAsStated ==
    AtHome =>
        /\ ret.exc = "none"
        /\ PoseClose(ret.val.pos, << 0, 0, D1 + D4 + D6, 0, 0, 0 >>)

\* C3 amended: at the home angles forward kinematics returns, to within the
\* tolerance, x = A2 = 270, y = 0, z = D1 - D4 - D6 = -259.4 and a = 0, b = 90,
\* c = 90 degrees.
C3_HomePose ==
    AtHome =>
        /\ ret.exc = "none"
        /\ PoseClose(ret.val.pos, << A2, 0, D1 - D4 - D6, 0, Deg(90), Deg(90) >>)

\* forward kinematics has run on the home angles and returned a pose
C3_Witness == AtHome /\ ret.exc = "none" /\ Len(ret.val.pos) = 6

\* the law-of-cosines term of the inverse solver for the called target
CosTheta3 ==
    Ik2Arm(call.args[1], call.args[2], call.args[3],
           Ik2Rotation(call.args[4], call.args[5], call.args[6])).cos_theta2

HasNaN(t) == \E i \in 1..Len(t) : t[i] = NaN

\* C4: for every target whose law-of-cosines term lies outside [-1, 1] the
\* inverse solver reports an error to its caller; it returns no joint angles,
\* in particular none that are NaN.
C4_UnreachableReported ==
    (Done("calculate_ik2") /\ Abs(CosTheta3) > S) =>
        /\ ret.exc # "none"
        /\ ~HasNaN(ret.val)

\* C5: mat4_mul raises, and returns nothing, when either operand is not 4x4;
\* pose_from_transform raises, and returns nothing, when its argument is not
\* 4x4.
C5_ShapeRejection ==
    /\ (Done("mat4_mul") /\ (~Is4x4(call.args[1]) \/ ~Is4x4(call.args[2]))) =>
          (ret.exc = "ValueError" /\ ret.val = << >>)
    /\ (Done("pose_from_transform") /\ ~Is4x4(call.args[1])) =>
          (ret.exc = "ValueError" /\ ret.val = << >>)

\* mat4_mul was called with a 4x4 and a 3x3 operand, in either order
C5_Witness ==
    /\ Done("mat4_mul")
    /\ \/ (Is4x4(call.args[1]) /\ Shape(call.args[2]) = << 3, 3 >>)
       \/ (Shape(call.args[1]) = << 3, 3 >> /\ Is4x4(call.args[2]))
    /\ ret.exc = "ValueError"

\* the standard Denavit-Hartenberg matrix of (a, alpha, d, theta)
StandardDh(a, alpha, d, theta) ==
    LET ct == Cos(theta)
        st == Sin(theta)
        ca == Cos(alpha)
        sa == Sin(alpha)
    IN  << << ct, -MulS(st, ca), MulS(st, sa),  MulS(a, ct) >>,
           << st, MulS(ct, ca),  -MulS(ct, sa), MulS(a, st) >>,
           << 0,  sa,            ca,            d >>,
           << 0,  0,             0,             S >> >>

\* C6: dh_matrix(a, alpha, d, theta) is the standard Denavit-Hartenberg matrix;
\* its last row is (0, 0, 0, 1) and dh_matrix(0, 0, 0, 0) is the identity.
C6_DhMatrix ==
    Done("dh_matrix") =>
        /\ ret.exc = "none"
        /\ ret.val = StandardDh(call.args[1], call.args[2], call.args[3], call.args[4])
        /\ ret.val[4] = << 0, 0, 0, S >>
        /\ (call.args = << 0, 0, 0, 0 >> => ret.val = Identity4)

\* dh_matrix was called with a link length, a twist and a joint angle that
\* are all non-zero, and dh_matrix(0, 0, 0, 0) is among the calls
C6_Witness ==
    /\ Done("dh_matrix")
    /\ call.args[1] # 0 /\ call.args[2] # 0 /\ call.args[4] # 0
    /\ ret.val[1][3] # 0
    /\ [fn |-> "dh_matrix", args |-> << 0, 0, 0, 0 >>] \in DhCalls

\* C7: the x, y, z returned by forward kinematics are the last-column entries
\* of the product of the six per-joint transforms: pose extraction reads the
\* translation from the last column whatever the rotation part is, and the
\* right-multiplication by P leaves the last column unchanged.
C7_TranslationFromLastColumn ==
    /\ (Done("apply_forward_kinematics") /\ ret.exc = "none") =>
          LET f == ret.val
              T == AscendingProduct(f.dh, 6)
          IN  /\ f.pos[1] = T[1][4] /\ f.pos[2] = T[2][4] /\ f.pos[3] = T[3][4]
              /\ \A k \in 1..4 : f.trP[k][4] = f.tr[6][k][4]
    /\ (Done("pose_from_transform") /\ ret.exc = "none") =>
          LET T == call.args[1]
          IN  ret.val[1] = T[1][4] /\ ret.val[2] = T[2][4] /\ ret.val[3] = T[3][4]

\* forward kinematics returned a position whose three coordinates differ and
\* whose end-effector rotation was changed by P
C7_Witness ==
    /\ Done("apply_forward_kinematics") /\ ret.exc = "none"
    /\ ret.val.pos[1] # ret.val.pos[2] /\ ret.val.pos[2] # ret.val.pos[3]
    /\ ret.val.pos[1] # ret.val.pos[3]
    /\ ret.val.trP # ret.val.tr[6]

\* C8: with den = sqrt(R[2][1]^2 + R[2][2]^2) and b = atan2(-R[2][0], den),
\* pose extraction returns a = atan2(R[1][0], R[0][0]), b and
\* c = atan2(R[2][1], R[2][2]) if cos(b) >= 0, and otherwise
\* a = atan2(-R[1][0], -R[0][0]), b = atan2(-R[2][0], -den) and
\* c = atan2(-R[2][1], -R[2][2]); for every 4x4 input.
C8_EulerBranches ==
    (Done("pose_from_transform") /\ Is4x4(call.args[1])) =>
        LET R   == call.args[1]
            den == SqrtSumSq(R[3][2], R[3][3])
            b   == Atan2(-R[3][1], den)
        IN  /\ ret.exc = "none"
            /\ IF Cos(b) >= 0
               THEN /\ ret.val[4] = Degrees(Atan2(R[2][1], R[1][1]))
                    /\ ret.val[5] = Degrees(b)
                    /\ ret.val[6] = Degrees(Atan2(R[3][2], R[3][3]))
               ELSE /\ ret.val[4] = Degrees(Atan2(-R[2][1], -R[1][1]))
                    /\ ret.val[5] = Degrees(Atan2(-R[3][1], -den))
                    /\ ret.val[6] = Degrees(Atan2(-R[3][2], -R[3][3]))

\* pose extraction has run on a transform whose three angles are all non-zero
C8_Witness ==
    /\ Done("pose_from_transform") /\ ret.exc = "none"
    /\ call.args[1][2][1] # 0 /\ call.args[1][3][1] # 0 /\ call.args[1][3][2] # 0
    /\ ret.val[4] # 0 /\ ret.val[5] # 0 /\ ret.val[6] # 0


TolEntry == S \div 100

\* C9: the rotation matrix the inverse solver builds from (a, b, c) is
\* Rz(a) Ry(b) Rx(c), and pose extraction applied to a transform carrying it
\* returns the same (a, b, c), for every a and c and every b in (-90, 90).
C9_OrientationInverseConsistent ==
    (Done("orientation") /\ Abs(call.args[2]) < Deg(90)) =>
        LET a == call.args[1]
            b == call.args[2]
            c == call.args[3]
            R == ret.val[1]
            Z == Rzyx(a, b, c)
        IN  /\ \A i \in 1..3 : \A j \in 1..3 : Close(R[i][j], Z[i][j], TolEntry)
            /\ ret.exc = "none"
            /\ AngClose(ret.val[2][4], a, TolDeg)
            /\ AngClose(ret.val[2][5], b, TolDeg)
            /\ AngClose(ret.val[2][6], c, TolDeg)

\* the wrist denominators of the inverse solver for the called target
WristTerms ==
    LET R == Ik2Rotation(call.args[4], call.args[5], call.args[6])
    IN  Ik2Wrist(R, Ik2Joints(Ik2Arm(call.args[1], call.args[2], call.args[3], R)))

\* the call told its caller about a singular configuration: a warning in
\* the log, or a warning value returned next to the six numbers
Signalled ==
    \/ \E i \in 1..Len(log) : log[i].level = "warning"
    \/ (ret.exc = "none" /\ Len(ret.val) > 6)

\* C10: at gimbal lock (den = 0) pose extraction, and near zero wrist
\* denominators the inverse solver, return a best-effort result and signal
\* the condition to the caller.
C10_SingularitySignalled ==
    /\ (Done("pose_from_transform") /\ Is4x4(call.args[1]) /\ Den(call.args[1]) = 0) =>
          (ret.exc = "none" /\ Signalled)
    /\ (Done("calculate_ik2") /\ WristTerms.ax # NaN
          /\ (Abs(WristTerms.ax) < Epsilon \/ Abs(WristTerms.ay) < Epsilon)) =>
          (ret.exc = "none" /\ Signalled)

\* a call of one of the two inverse solvers has returned
SolverDone == Done("calculate_ik2") \/ Done("calculate_ik")

\* the rotation matrix the called solver builds for its target
SolverRotation ==
    IF call.fn = "calculate_ik"
    THEN IkRotation(call.args[4], call.args[5], call.args[6])
    ELSE Ik2Rotation(call.args[4], call.args[5], call.args[6])

\* the wrist centre, r, s and law-of-cosines term the called solver computes
SolverArm ==
    IF call.fn = "calculate_ik"
    THEN IkArm(call.args[1], call.args[2], call.args[3], SolverRotation)
    ELSE Ik2Arm(call.args[1], call.args[2], call.args[3], SolverRotation)

\* the target position moved back by D6 along the third column of
\* Rz(a) Ry(b) Rx(c)
ZyxWristCentre ==
    LET Z == Rzyx(call.args[4], call.args[5], call.args[6])
    IN  << call.args[1] - MulS(D6, Z[1][3]),
           call.args[2] - MulS(D6, Z[2][3]),
           call.args[3] - MulS(D6, Z[3][3]) >>

\* C11: for every target pose the inverse solver computes the wrist centre
\* (Wx, Wy, Wz) as (x, y, z) minus D6 times the third column of the Z-Y-X
\* rotation matrix of (a, b, c), and returns theta1 = atan2(Wy, Wx).
C11_WristCentre ==
    SolverDone =>
        /\ Close(SolverArm.Wx, ZyxWristCentre[1], TolLen)
        /\ Close(SolverArm.Wy, ZyxWristCentre[2], TolLen)
        /\ Close(SolverArm.Wz, ZyxWristCentre[3], TolLen)
        /\ ret.val[1] = Degrees(Atan2(SolverArm.Wy, SolverArm.Wx))

\* the target is reachable: the law-of-cosines term is a cosine
Reachable == Abs(SolverArm.cos_theta2) <= S

TolRad == S \div 1000

\* the elbow angle the call returned, before the zero-reference offset of
\* theta[2] (radians)
ElbowAngle == Sub(Radians(ret.val[3]), HalfPi)

\* the fifth angle the call returned, before the offset calculate_ik adds to
\* it (degrees)
WristBend == IF call.fn = "calculate_ik" THEN ret.val[5] - Deg(90) ELSE ret.val[5]

\* C12: for every reachable target the inverse solver returns the branch
\* whose elbow angle, before its offset, is atan2(-sqrt(1 - cos3^2), cos3):
\* its cosine is the law-of-cosines term and its sine is never positive; the
\* wrist bend stays on the one side its solver fixes (sine never negative
\* in calculate_ik2, never positive in calculate_ik).
C12_FixedBranch ==
    (SolverDone /\ Reachable) =>
        /\ ~HasNaN(ret.val)
        /\ ElbowAngle <= TolRad
        /\ ElbowAngle >= -Pi - TolRad
        /\ Close(Cos(ElbowAngle), SolverArm.cos_theta2, TolRad)
        /\ (call.fn = "calculate_ik2" => (WristBend >= 0 /\ WristBend <= Deg(180)))
        /\ (call.fn = "calculate_ik" => (WristBend <= 0 /\ WristBend >= -Deg(180)))

C12_Witness ==
    /\ Done("calculate_ik2")
    /\ Abs(SolverArm.cos_theta2) < S \div 2
    /\ ElbowAngle < -HalfPi \div 2
    /\ WristBend > Deg(10)

\* atan2(s, r) - atan2(D4 sin(e), A2 + D4 cos(e)) in degrees, for the
\* triangle of the call and an elbow angle e (radians)
ShoulderFormula(e) ==
    Degrees(Sub(Atan2(SolverArm.s, SolverArm.r),
                Atan2(MulS(D4, Sin(e)), Add(A2, MulS(D4, Cos(e))))))

\* C13 as stated: the second angle returned is the formula of the elbow
\* angle with the solver's fixed offset (90 degrees) applied to it
C13_SecondJointAsStated ==
    (SolverDone /\ Reachable) =>
        Close(ret.val[2], ShoulderFormula(ElbowAngle) + Deg(90), TolDeg)

\* C13: for every reachable target the second angle returned is
\* atan2(s, r) - atan2(D4 sin(theta3), A2 + D4 cos(theta3)) with no offset,
\* where theta3 is the elbow angle of the law of cosines; the fixed offset
\* of 90 degrees is applied to the third angle, after the second has been
\* computed from it.
C13_SecondJoint ==
    (SolverDone /\ Reachable) =>
        /\ Close(ret.val[2], ShoulderFormula(ElbowAngle), TolDeg)
        /\ Close(Cos(ElbowAngle), SolverArm.cos_theta2, TolRad)
        /\ ret.val[3] >= -Deg(90) - TolDeg
        /\ ret.val[3] <= Deg(90) + TolDeg

C13_Witness ==
    /\ Done("calculate_ik2")
    /\ Reachable
    /\ ret.val[2] > Deg(30)
    /\ ret.val[3] < -Deg(10)

\* ax, ay, az, sz, nz of the call, as its solver computes them
SolverWrist ==
    IF call.fn = "calculate_ik"
    THEN IkWrist(SolverRotation, IkJoints(SolverArm))
    ELSE Ik2Wrist(SolverRotation, Ik2Joints(SolverArm))

\* joint 4 of the call from ax and ay pushed away from zero by Epsilon
GuardedJoint4 ==
    IF call.fn = "calculate_ik"
    THEN Degrees(Add(Atan2(Neg(Nudged(SolverWrist.ay)), Neg(Nudged(SolverWrist.ax))),
                     HalfPi))
    ELSE Degrees(Atan2(Nudged(SolverWrist.ay), Nudged(SolverWrist.ax)))

\* C14: before the wrist angles are computed the inverse solver pushes ax
\* and ay, where one is nearer to zero than 0.1, away from zero by 0.1 in
\* the direction of its sign (zero counts as positive): joint 4 is the atan2
\* of the pushed values, never of (0, 0).
C14_SingularityGuard ==
    (SolverDone /\ Reachable) => ret.val[4] = GuardedJoint4

TolPacket == S \div 5000

\* entry v of a packet is the angle a (degrees) in radians, less the offset
\* off (degrees); an angle that is not a number is sent as it is
Carries(v, a, off) ==
    IF a = NaN THEN v = NaN
    ELSE v # NaN /\ Close(Degrees(v) + off, a, TolPacket)

\* packet p is a joint-angle packet of robot id for the angles a (degrees)
JointPacket(p, id, a) ==
    /\ Len(p) = 8
    /\ p[1] = 2
    /\ p[2] = id
    /\ \A i \in 1..4 : Carries(p[2 + i], a[i], Deg(90))
    /\ \A i \in 5..6 : Carries(p[2 + i], a[i], 0)

\* C15: every joint-angle packet carries message type 2, the robot id and
\* the six angles in axis order, converted from degrees to radians, with
\* -pi/2 applied to axes 1 to 4 and no offset on axes 5 and 6.
C15_TransportConversion ==
    (Done("apply_forward_kinematics") /\ ret.exc = "none") =>
        /\ Len(ret.val.packets) = 2
        /\ JointPacket(ret.val.packets[1], 1, call.args[1])
        /\ JointPacket(ret.val.packets[2], 0, ret.val.ik)

C15_Witness ==
    /\ Done("apply_forward_kinematics")
    /\ ret.exc = "none"
    /\ call.args[1][1] = Deg(30)
    /\ call.args[1][5] = Deg(90)
    /\ ~HasNaN(ret.val.ik)
    /\ ret.val.packets[1][7] > S

\* C16: after any sequence of forward-kinematics, inverse-kinematics and
\* handler calls ROBOT_DH_PARAMS and the link constants D1, A2, D4, D6 are
\* what they were when the module was loaded: the six (a, alpha, d) tuples
\* every solve reads.
C16_DescriptorFixed ==
    /\ globals = LoadedGlobals
    /\ Len(globals.ROBOT_DH_PARAMS) = 6
    /\ \A i \in 1..6 : globals.ROBOT_DH_PARAMS[i] = ROBOT_DH_PARAMS[i]
    /\ << globals.D1, globals.A2, globals.D4, globals.D6 >> = << D1, A2, D4, D6 >>

C16_Witness ==
    /\ Done("round_trip")
    /\ ret.exc = "none"
    /\ globals.ROBOT_DH_PARAMS[6][3] = D6

\* what the call c returns when nothing else runs
Alone(c) ==
    CASE c.fn = "dh_matrix" ->
           Ok(dh_matrix(c.args[1], c.args[2], c.args[3], c.args[4]))
      [] c.fn = "mat4_mul" -> mat4_mul(LoadedArrays[c.args[1]], LoadedArrays[c.args[2]])
      [] c.fn = "pose_from_transform" -> pose_from_transform(LoadedArrays[c.args[1]])
      [] c.fn = "calculate_ik2" ->
           Ok(calculate_ik2(c.args[1], c.args[2], c.args[3], c.args[4], c.args[5],
                            c.args[6]))
      [] OTHER -> Pending

\* C17: when two threads call dh_matrix, mat4_mul, pose_from_transform and
\* calculate_ik2 concurrently, under every interleaving of their steps, each
\* call returns what it returns alone, a result of its arguments and the link
\* constants only; the argument arrays and the link constants are left as
\* they were.
C17_Stateless ==
    /\ arrays = LoadedArrays
    /\ globals = LoadedGlobals
    /\ \A t \in Thread :
          threads[t].pc = "done" => threads[t].ret = Alone(threads[t].call)

C17_Witness ==
    /\ \A t \in Thread : threads[t].pc = "done" /\ threads[t].met
    /\ threads[1].call.fn = "calculate_ik2"
    /\ threads[2].call.fn = "calculate_ik2"
    /\ threads[1].call # threads[2].call
    /\ ~HasNaN(threads[1].ret.val)

\* the listed files can all be read, under their names or in shapes/
AllReadable == \A i \in 1..Len(Filenames) : Candidate(files[i]) > 0

\* the shape of the listed file i as it is, read, simplified and centred
ShapeOfFile(i) ==
    [file |-> i, version |-> Candidate(files[i]), meshed |-> TRUE, centered |-> TRUE]

\* load_shapes found a cache file it could read: it returns the shapes of
\* that file, reads no STEP file and leaves the cache alone
OnHit ==
    /\ ~loader'.none
    /\ loader'.shapes = cache[get_cache_key(files)].shapes
    /\ loader'.reads = 0
    /\ cache' = cache

\* load_shapes found no cache file it could read: it reads the STEP files;
\* it returns their shapes, simplified and centred, and the cache holds them
\* afterwards; or, when a file cannot be read, it returns None
OnMiss ==
    /\ loader'.reads = Len(Filenames)
    /\ loader'.none = ~AllReadable
    /\ AllReadable =>
          /\ loader'.shapes = Array([i \in 1..Len(Filenames) |-> ShapeOfFile(i)])
          /\ cache'[get_cache_key(files)].state = "saved"
          /\ cache'[get_cache_key(files)].shapes = loader'.shapes
    /\ ~AllReadable => cache' = cache

Current(shapes) ==
    /\ Len(shapes) = Len(Filenames)
    /\ \A i \in 1..Len(Filenames) : shapes[i] = ShapeOfFile(i)

\* C19: save_cache followed by load_cache with the listed files unchanged
\* returns the saved shapes and statuses; after the modification time of a
\* listed file changed, or a listed file appeared or disappeared, load_cache
\* returns None until a new save_cache; a stale cache is never returned.
C19_NoStaleCache ==
    got.called =>
        /\ since = "saved" =>
              /\ got.hit
              /\ Current(got.shapes)
              /\ \A i \in 1..Len(got.statuses) : got.statuses[i] = RetDone
        /\ since = "changed" => ~got.hit
        /\ got.hit => Current(got.shapes)

\* the rotation of entry k of the list of the call
EntryRotation(k) ==
    SetRotation(call.args[1].rotations[k].axis, Radians(call.args[1].rotations[k].angle_deg))

\* Rk * ... * R1 for the first k entries of the list of the call, entries
\* without an axis left out
RECURSIVE FirstEntryFirst(_)
FirstEntryFirst(k) ==
    IF k = 0 THEN Identity4
    ELSE IF call.args[1].rotations[k].axis = None THEN FirstEntryFirst(k - 1)
    ELSE MatMul(EntryRotation(k), FirstEntryFirst(k - 1))

\* T * (Rn * ... * R1) for the transform of the call
ListOrderTransform ==
    IF call.args[1].translate = None
    THEN FirstEntryFirst(Len(call.args[1].rotations))
    ELSE MatMul(SetTranslation(call.args[1].translate),
                FirstEntryFirst(Len(call.args[1].rotations)))

\* C20: get_total_transform returns T * (Rn * ... * R1): the rotations act
\* on the shape in list order, the first entry first, each about an axis
\* through the global origin, and the translation after all rotations.
C20_ListOrder ==
    Done("get_total_transform") =>
        \A i \in 1..4, j \in 1..4 :
            Close(ret.val[i][j], ListOrderTransform[i][j], IF j = 4 THEN TolLen ELSE TolEntry)

Looping == {t \in Reader : readers[t] \in {"test", "read"}}

\* ------------------------------------------------------------------------
\* C24: whatever the sequence of start_reader, stop_reader and close, at
\* most one reader thread executes _reader_loop at any time, also when the
\* join of stop_reader timed out and start_reader is called again.
\* ------------------------------------------------------------------------
C24_SingleReader == Cardinality(Looping) <= 1

\* a forward-kinematics call with the display update enabled has returned
FkShown == Done("apply_forward_kinematics") /\ ret.exc = "none" /\ call.args[2]

\* the pose extracted from cumulative transform i of the call (i from 1),
\* and the pose before the first
FramePose(i) ==
    IF i = 0 THEN << 0, 0, 0, 0, 0, 0 >> ELSE pose_from_transform(ret.val.tr[i]).val

\* entry e of the table holds the translation of pose p and the angles of pose q
Holds(e, p, q) ==
    /\ e.translate = << p[1], p[2], p[3] >>
    /\ e.rotations[1].angle_deg = q[4]
    /\ e.rotations[2].angle_deg = q[5]
    /\ e.rotations[3].angle_deg = q[6]

\* C22 as stated: the translation and the angles of sub-assembly i+1 are
\* both those of the pose of cumulative transform i
C22_SameFrame ==
    FkShown =>
        /\ ret.val.table[1] = InitTransformsTable[1]
        /\ \A i \in 1..6 : Holds(ret.val.table[i + 1], FramePose(i), FramePose(i))

\* ------------------------------------------------------------------------
\* C22: after a forward-kinematics call with the display update enabled,
\* the entry of sub-assembly i+1 holds the three angles of the pose of
\* cumulative transform i and the translation of the pose of cumulative
\* transform i-1 (zero for the first); the entry of the base is untouched.
\* ------------------------------------------------------------------------
C22_Staggered ==
    FkShown =>
        /\ ret.val.table[1] = InitTransformsTable[1]
        /\ \A i \in 1..6 : Holds(ret.val.table[i + 1], FramePose(i - 1), FramePose(i))

\* a call after which the second and third sub-assemblies sit at different
\* heights than the frames that orient them
C22_Witness ==
    /\ FkShown
    /\ call.args[1][2] = Deg(60)
    /\ ret.val.table[3].translate[3] # FramePose(2)[3]
    /\ ret.val.table[4].translate # ret.val.table[3].translate

\* entry e of the table has received the angles a, b, c of pose q in its
\* first, second and third rotation
Receives(e, q) ==
    /\ e.rotations[1].angle_deg = q[4]
    /\ e.rotations[2].angle_deg = q[5]
    /\ e.rotations[3].angle_deg = q[6]

\* ------------------------------------------------------------------------
\* C23: in the table written by forward kinematics, for every sub-assembly
\* 1..6, the rotation that receives a has axis (0,0,1), the one that
\* receives b has axis (0,1,0) and the one that receives c has axis (1,0,0).
\* ------------------------------------------------------------------------
C23_AxesZYX ==
    FkShown =>
        \A i \in 1..6 :
            /\ Receives(ret.val.table[i + 1], FramePose(i))
            /\ ret.val.table[i + 1].rotations[1].axis = << 0, 0, 1 >>
            /\ ret.val.table[i + 1].rotations[2].axis = << 0, 1, 0 >>
            /\ ret.val.table[i + 1].rotations[3].axis = << 1, 0, 0 >>

\* ------------------------------------------------------------------------
\* C25: no packet handed to the transport carries a joint angle that is
\* not a number, whatever the slider events, an inverse-kinematics target
\* out of reach included.
\* ------------------------------------------------------------------------
C25_FinitePackets == \A i \in 1..Len(viewer.sent) : ~HasNaN(viewer.sent[i])

\* ------------------------------------------------------------------------
\* C26: while the handler of a forward release copies the achieved pose
\* into the target sliders, the callback of an inverse change runs on no
\* intermediate state: every target it ran on is the whole achieved pose.
\* ------------------------------------------------------------------------
C26_NoMixedPose ==
    event.name = "forward_released" =>
        \A i \in 1..Len(viewer.ran) : viewer.ran[i] = TargetValues(viewer.pose)

\* shape i is drawn as the window's tables say
Consistent(i) ==
    /\ viewer.checked[i] <=> viewer.draw_table[i]
    /\ viewer.displayed[i] <=> viewer.draw_table[i]
    /\ viewer.displayed[i] => viewer.local[i] = get_total_transform(viewer.table[i])

\* ------------------------------------------------------------------------
\* C27: after any sequence of clicks on check boxes, of "select all" or
\* "select none" and of forward-kinematics updates, check box i is checked
\* exactly when draw_table[i] is true, shape i is displayed exactly when
\* draw_table[i] is true, a displayed shape has the transform of its
\* present entry of transforms_table, and "select all" or "select none"
\* called the callback of no check box.
\* ------------------------------------------------------------------------
C27_VisibilityConsistent ==
    /\ \A i \in ShapeIndex : Consistent(i)
    /\ event.name = "set_all" => viewer.callbacks = 0

\* a sub-assembly hidden while a forward release moved it, and shown again
C27_Witness ==
    /\ event.name = "visibility"
    /\ viewer.displayed[3] /\ ~before.displayed[3]
    /\ viewer.local[3] # before.local[3]
    /\ viewer.table = before.table

PitchInRange(b) == b # NaN /\ -Deg(90) <= b /\ b <= Deg(90)

\* ------------------------------------------------------------------------
\* C28: for every 4x4 input of finite entries the angle b returned by
\* pose_from_transform lies in [-90, 90] degrees, and two orientations
\* whose b differ as b and 180 - b are returned the same b.
\* ------------------------------------------------------------------------
C28_PitchBranch ==
    /\ (Done("pose_from_transform") /\ ret.exc = "none" /\ ~HasNaN(ret.val)) =>
           PitchInRange(ret.val[5])
    /\ Done("branches") =>
           /\ PitchInRange(ret.val[1][5]) /\ PitchInRange(ret.val[2][5])
           /\ Close(ret.val[1][5], call.args[3], TolDeg)
           /\ Close(ret.val[2][5], call.args[3], TolDeg)

\* b = 30 and b = 150 about the same a and c: the same b comes back, with
\* another a
C28_Witness ==
    /\ Done("branches")
    /\ call.args[3] = Deg(30)
    /\ Close(ret.val[2][5], Deg(30), TolDeg)
    /\ ~Close(ret.val[1][4], ret.val[2][4], Deg(90))

\* a list holding a shape of every listed file, simplified and centred
Complete(shapes) ==
    /\ Len(shapes) = Len(Filenames)
    /\ \A i \in 1..Len(Filenames) :
          shapes[i].file = i /\ shapes[i].meshed /\ shapes[i].centered

\* load_shapes misses the cache and a listed file cannot be read
FailedRead == cache[get_cache_key(files)].state # "saved" /\ ~AllReadable

\* ------------------------------------------------------------------------
\* C30: when a listed STEP file cannot be read on a cache miss, load_shapes
\* returns None, sets no shapes and writes no cache file; and the shapes of
\* a cache hit are always a shape of every listed file.
\* ------------------------------------------------------------------------
C30_NoPartialCache ==
    [][LoadShapes =>
          /\ FailedRead => (loader'.none /\ loader'.shapes = << >> /\ cache' = cache)
          /\ loader'.hit => Complete(loader'.shapes)]_vars

\* load_shapes failed on a file that went missing after an earlier load had
\* filled the cache
C30_Witness ==
    /\ loader.called /\ loader.none
    /\ loader.reads = Len(Filenames)
    /\ \E k \in Keys : cache[k].state = "saved"
    /\ changes > 0

====
